---- MODULE Spec2Model ----
(***************************************************************************)
(* Recycling service (src/unnamed/part_001): extraction of recycling rules *)
(* from search-result snippets (getRecyclingRules, extractRules and its    *)
(* helpers) and comparison of detected items against them                   *)
(* (compareMaterials).                                                       *)
(*                                                                           *)
(* A JavaScript string is a sequence of one-character strings, so that      *)
(* includes, indexOf, slice, split, toLowerCase and length are computed     *)
(* character by character.  A missing field (undefined) is Undefined.       *)
(***************************************************************************)
EXTENDS Integers, Sequences, FiniteSets, TLC

\* ------------------------------------------------------------------ bounds
\* longest sequence of search results the search provider returns
MaxResults == 2
\* longest array of detected items handed to compareMaterials
MaxItems == 2

\* --------------------------------------------------------------- JS strings
Undefined == <<"undefined">>

LowerOf ==
  [A |-> "a", B |-> "b", C |-> "c", D |-> "d", E |-> "e", F |-> "f", G |-> "g",
   H |-> "h", I |-> "i", J |-> "j", K |-> "k", L |-> "l", M |-> "m", N |-> "n",
   O |-> "o", P |-> "p", Q |-> "q", R |-> "r", S |-> "s", T |-> "t", U |-> "u",
   V |-> "v", W |-> "w", X |-> "x", Y |-> "y", Z |-> "z"]

UpperOf ==
  [a |-> "A", b |-> "B", c |-> "C", d |-> "D", e |-> "E", f |-> "F", g |-> "G",
   h |-> "H", i |-> "I", j |-> "J", k |-> "K", l |-> "L", m |-> "M", n |-> "N",
   o |-> "O", p |-> "P", q |-> "Q", r |-> "R", s |-> "S", t |-> "T", u |-> "U",
   v |-> "V", w |-> "W", x |-> "X", y |-> "Y", z |-> "Z"]

\* a function on 1..n as the tuple of its values
Tuple(f) == f \o <<>>

\* String.prototype.toLowerCase
ToLowerCase(s) ==
  Tuple([i \in 1..Len(s) |-> IF s[i] \in DOMAIN LowerOf THEN LowerOf[s[i]] ELSE s[i]])

\* String.prototype.toUpperCase
ToUpperCase(s) ==
  Tuple([i \in 1..Len(s) |-> IF s[i] \in DOMAIN UpperOf THEN UpperOf[s[i]] ELSE s[i]])

\* text starts with term at 0-based offset i
MatchesAt(text, term, i) ==
  /\ i + Len(term) <= Len(text)
  /\ \A k \in 1..Len(term) : text[i + k] = term[k]

\* String.prototype.includes
Includes(text, term) ==
  \E i \in 0..(Len(text) - Len(term)) : MatchesAt(text, term, i)

\* String.prototype.indexOf (0-based, -1 when absent)
IndexOf(text, term) ==
  IF Includes(text, term)
  THEN CHOOSE i \in 0..(Len(text) - Len(term)) :
         /\ MatchesAt(text, term, i)
         /\ \A j \in 0..(i - 1) : ~MatchesAt(text, term, j)
  ELSE -1

\* String.prototype.slice(start, end) for 0 <= start <= end <= length
Slice(s, start, end) == SubSeq(s, start + 1, end)

Max(a, b) == IF a >= b THEN a ELSE b
Min(a, b) == IF a <= b THEN a ELSE b

\* String.prototype.split(' ')
RECURSIVE SplitFrom(_, _, _)
SplitFrom(s, i, word) ==
  IF i > Len(s) THEN <<word>>
  ELSE IF s[i] = " " THEN <<word>> \o SplitFrom(s, i + 1, <<>>)
       ELSE SplitFrom(s, i + 1, Append(word, s[i]))

Split(s) == SplitFrom(s, 1, <<>>)

\* Array.prototype.join(', ')
RECURSIVE Join(_)
Join(parts) ==
  IF Len(parts) = 0 THEN <<>>
  ELSE IF Len(parts) = 1 THEN parts[1]
       ELSE parts[1] \o <<","," ">> \o Join(Tail(parts))

\* rank of a character in the collation order used by localeCompare on the
\* material names: space first, then letters without regard to case
CharRank(c) ==
  LET l == IF c \in DOMAIN LowerOf THEN LowerOf[c] ELSE c
      alphabet == <<" ","a","b","c","d","e","f","g","h","i","j","k","l","m","n","o","p","q","r","s","t","u","v","w","x","y","z">>
  IN IF \E k \in 1..Len(alphabet) : alphabet[k] = l
     THEN CHOOSE k \in 1..Len(alphabet) : alphabet[k] = l
     ELSE 0

\* String.prototype.localeCompare: negative, zero or positive
LocaleCompare(a, b) ==
  LET n == Min(Len(a), Len(b))
      diff == {k \in 1..n : CharRank(a[k]) # CharRank(b[k])}
  IN IF diff = {}
     THEN Len(a) - Len(b)
     ELSE LET k == CHOOSE x \in diff : \A y \in diff : x <= y
          IN CharRank(a[k]) - CharRank(b[k])

\* Array.prototype.sort with comparator Cmp (stable): the element at index i
\* lands after every element that compares lower, and after the earlier
\* elements that compare equal
SortStable(seq, Cmp(_, _)) ==
  LET n == Len(seq)
      pos(i) == 1 + Cardinality({j \in 1..n :
                     \/ Cmp(seq[j], seq[i]) < 0
                     \/ (Cmp(seq[j], seq[i]) = 0 /\ j < i)})
  IN Tuple([p \in 1..n |-> seq[CHOOSE i \in 1..n : pos(i) = p]])

\* ------------------------------------------------------ material taxonomy
MATERIAL_DATABASE ==
  [accepted |-> <<
     [canonical |-> <<"C","a","r","d","b","o","a","r","d">>,
      variations |-> << <<"c","a","r","d","b","o","a","r","d">>, <<"c","o","r","r","u","g","a","t","e","d">>, <<"b","o","x","e","s">> >>],
     [canonical |-> <<"P","a","p","e","r">>,
      variations |-> << <<"p","a","p","e","r">>, <<"o","f","f","i","c","e"," ","p","a","p","e","r">>, <<"j","u","n","k"," ","m","a","i","l">>, <<"m","a","i","l">> >>],
     [canonical |-> <<"N","e","w","s","p","a","p","e","r">>,
      variations |-> << <<"n","e","w","s","p","a","p","e","r">>, <<"n","e","w","s","p","a","p","e","r","s">>, <<"n","e","w","s","p","r","i","n","t">> >>],
     [canonical |-> <<"M","a","g","a","z","i","n","e","s">>,
      variations |-> << <<"m","a","g","a","z","i","n","e","s">>, <<"c","a","t","a","l","o","g","s">>, <<"c","a","t","a","l","o","g","u","e","s">> >>],
     [canonical |-> <<"A","l","u","m","i","n","u","m"," ","C","a","n","s">>,
      variations |-> << <<"a","l","u","m","i","n","u","m"," ","c","a","n","s">>, <<"a","l","u","m","i","n","u","m">>, <<"s","o","d","a"," ","c","a","n","s">>, <<"b","e","e","r"," ","c","a","n","s">> >>],
     [canonical |-> <<"G","l","a","s","s"," ","B","o","t","t","l","e","s">>,
      variations |-> << <<"g","l","a","s","s"," ","b","o","t","t","l","e","s">>, <<"g","l","a","s","s"," ","j","a","r","s">>, <<"g","l","a","s","s"," ","c","o","n","t","a","i","n","e","r","s">> >>],
     [canonical |-> <<"G","l","a","s","s">>,
      variations |-> << <<"g","l","a","s","s">> >>],
     [canonical |-> <<"P","l","a","s","t","i","c"," ","B","o","t","t","l","e","s">>,
      variations |-> << <<"p","l","a","s","t","i","c"," ","b","o","t","t","l","e","s">>, <<"w","a","t","e","r"," ","b","o","t","t","l","e","s">>, <<"s","o","d","a"," ","b","o","t","t","l","e","s">> >>],
     [canonical |-> <<"P","l","a","s","t","i","c"," ","C","o","n","t","a","i","n","e","r","s">>,
      variations |-> << <<"p","l","a","s","t","i","c"," ","c","o","n","t","a","i","n","e","r","s">>, <<"p","l","a","s","t","i","c"," ","t","u","b","s">>, <<"p","l","a","s","t","i","c"," ","j","u","g","s">> >>],
     [canonical |-> <<"M","e","t","a","l"," ","C","a","n","s">>,
      variations |-> << <<"m","e","t","a","l"," ","c","a","n","s">>, <<"t","i","n"," ","c","a","n","s">>, <<"s","t","e","e","l"," ","c","a","n","s">>, <<"f","o","o","d"," ","c","a","n","s">> >>],
     [canonical |-> <<"C","a","r","t","o","n","s">>,
      variations |-> << <<"c","a","r","t","o","n","s">>, <<"m","i","l","k"," ","c","a","r","t","o","n","s">>, <<"j","u","i","c","e"," ","c","a","r","t","o","n","s">>, <<"b","e","v","e","r","a","g","e"," ","c","a","r","t","o","n","s">> >>],
     [canonical |-> <<"R","i","g","i","d"," ","P","l","a","s","t","i","c","s">>,
      variations |-> << <<"r","i","g","i","d"," ","p","l","a","s","t","i","c","s">>, <<"h","a","r","d"," ","p","l","a","s","t","i","c","s">>, <<"p","l","a","s","t","i","c"," ","#","1">>, <<"p","l","a","s","t","i","c"," ","#","2">>, <<"p","e","t","e">>, <<"h","d","p","e">> >>]
   >>,
   notAccepted |-> <<
     [canonical |-> <<"P","l","a","s","t","i","c"," ","B","a","g","s">>,
      variations |-> << <<"p","l","a","s","t","i","c"," ","b","a","g","s">>, <<"g","r","o","c","e","r","y"," ","b","a","g","s">>, <<"s","h","o","p","p","i","n","g"," ","b","a","g","s">>, <<"f","i","l","m"," ","p","l","a","s","t","i","c">> >>],
     [canonical |-> <<"S","t","y","r","o","f","o","a","m">>,
      variations |-> << <<"s","t","y","r","o","f","o","a","m">>, <<"p","o","l","y","s","t","y","r","e","n","e">>, <<"f","o","a","m">>, <<"p","a","c","k","i","n","g"," ","p","e","a","n","u","t","s">> >>],
     [canonical |-> <<"F","o","o","d"," ","W","a","s","t","e">>,
      variations |-> << <<"f","o","o","d"," ","w","a","s","t","e">>, <<"f","o","o","d"," ","s","c","r","a","p","s">>, <<"f","o","o","d","-","s","o","i","l","e","d">>, <<"f","o","o","d"," ","c","o","n","t","a","m","i","n","a","t","e","d">> >>],
     [canonical |-> <<"E","l","e","c","t","r","o","n","i","c","s">>,
      variations |-> << <<"e","l","e","c","t","r","o","n","i","c","s">>, <<"e","-","w","a","s","t","e">>, <<"c","o","m","p","u","t","e","r","s">>, <<"p","h","o","n","e","s">>, <<"t","v","s">> >>],
     [canonical |-> <<"B","a","t","t","e","r","i","e","s">>,
      variations |-> << <<"b","a","t","t","e","r","i","e","s">>, <<"b","a","t","t","e","r","y">> >>],
     [canonical |-> <<"H","a","z","a","r","d","o","u","s"," ","W","a","s","t","e">>,
      variations |-> << <<"h","a","z","a","r","d","o","u","s">>, <<"t","o","x","i","c">>, <<"c","h","e","m","i","c","a","l","s">>, <<"p","e","s","t","i","c","i","d","e","s">> >>],
     [canonical |-> <<"Y","a","r","d"," ","W","a","s","t","e">>,
      variations |-> << <<"y","a","r","d"," ","w","a","s","t","e">>, <<"g","r","a","s","s"," ","c","l","i","p","p","i","n","g","s">>, <<"l","e","a","v","e","s">>, <<"b","r","a","n","c","h","e","s">> >>],
     [canonical |-> <<"T","e","x","t","i","l","e","s">>,
      variations |-> << <<"t","e","x","t","i","l","e","s">>, <<"c","l","o","t","h","i","n","g">>, <<"c","l","o","t","h","e","s">>, <<"f","a","b","r","i","c">> >>],
     [canonical |-> <<"D","i","a","p","e","r","s">>,
      variations |-> << <<"d","i","a","p","e","r","s">>, <<"s","a","n","i","t","a","r","y"," ","p","r","o","d","u","c","t","s">> >>],
     [canonical |-> <<"C","e","r","a","m","i","c","s">>,
      variations |-> << <<"c","e","r","a","m","i","c","s">>, <<"p","o","t","t","e","r","y">>, <<"d","i","s","h","e","s">>, <<"c","h","i","n","a">> >>],
     [canonical |-> <<"M","i","r","r","o","r","s">>,
      variations |-> << <<"m","i","r","r","o","r","s">>, <<"w","i","n","d","o","w"," ","g","l","a","s","s">>, <<"b","r","o","k","e","n"," ","g","l","a","s","s">> >>],
     [canonical |-> <<"L","i","g","h","t"," ","B","u","l","b","s">>,
      variations |-> << <<"l","i","g","h","t"," ","b","u","l","b","s">>, <<"b","u","l","b","s">>, <<"f","l","u","o","r","e","s","c","e","n","t">> >>],
     [canonical |-> <<"T","a","n","g","l","e","r","s">>,
      variations |-> << <<"h","o","s","e","s">>, <<"c","o","r","d","s">>, <<"w","i","r","e","s">>, <<"c","h","a","i","n","s">>, <<"t","a","n","g","l","e","r","s">> >>],
     [canonical |-> <<"S","c","r","a","p"," ","M","e","t","a","l">>,
      variations |-> << <<"s","c","r","a","p"," ","m","e","t","a","l">>, <<"l","a","r","g","e"," ","m","e","t","a","l">>, <<"m","e","t","a","l"," ","f","u","r","n","i","t","u","r","e">> >>]
   >>]

REJECTION_PATTERNS ==
  << <<"n","o","t"," ","a","c","c","e","p","t","e","d">>, <<"d","o"," ","n","o","t">>, <<"d","o","n","'","t">>, <<"c","a","n","n","o","t">>, <<"n","o"," ">>, <<"n","e","v","e","r">>,
     <<"p","r","o","h","i","b","i","t","e","d">>, <<"b","a","n","n","e","d">> >>

ALWAYS_NOT_ACCEPTED ==
  << <<"p","l","a","s","t","i","c"," ","b","a","g","s">>, <<"s","t","y","r","o","f","o","a","m">>, <<"b","a","t","t","e","r","i","e","s">>, <<"e","l","e","c","t","r","o","n","i","c","s">>, <<"h","a","z","a","r","d","o","u","s">> >>

\* the elements of a sequence
Range(seq) == {seq[i] : i \in 1..Len(seq)}

\* canonical names of one category of the taxonomy
CanonicalNames(entries) == {entries[k].canonical : k \in 1..Len(entries)}

\* ------------------------------------------------- Map<material, Set<url>>
\* A Map is the sequence of its entries in insertion order.
MapHas(map, key) == \E k \in 1..Len(map) : map[k].material = key

MapGet(map, key) ==
  (CHOOSE e \in Range(map) : e.material = key).sources

\* if (!map.has(key)) map.set(key, new Set()); map.get(key).add(url)
MapAddSource(map, key, url) ==
  IF MapHas(map, key)
  THEN Tuple([k \in 1..Len(map) |->
          IF map[k].material = key
          THEN [material |-> key, sources |-> map[k].sources \cup {url}]
          ELSE map[k]])
  ELSE Append(map, [material |-> key, sources |-> {url}])

\* ------------------------------------------------------------ extractNotes
\* the instructions found in the context window, in the order they are tested
Instructions(context) ==
  (IF Includes(context, <<"r","i","n","s","e">>) THEN << <<"r","i","n","s","e"," ","b","e","f","o","r","e"," ","r","e","c","y","c","l","i","n","g">> >> ELSE <<>>)
  \o (IF Includes(context, <<"f","l","a","t","t","e","n">>) THEN << <<"f","l","a","t","t","e","n">> >> ELSE <<>>)
  \o (IF Includes(context, <<"e","m","p","t","y">>) THEN << <<"e","m","p","t","y"," ","c","o","m","p","l","e","t","e","l","y">> >> ELSE <<>>)
  \o (IF Includes(context, <<"c","l","e","a","n">>) THEN << <<"m","u","s","t"," ","b","e"," ","c","l","e","a","n">> >> ELSE <<>>)
  \o (IF Includes(context, <<"d","r","y">>) THEN << <<"k","e","e","p"," ","d","r","y">> >> ELSE <<>>)
  \o (IF Includes(context, <<"r","e","m","o","v","e">>) /\ Includes(context, <<"c","a","p">>)
      THEN << <<"r","e","m","o","v","e"," ","c","a","p","s">> >> ELSE <<>>)
  \o (IF Includes(context, <<"r","e","m","o","v","e">>) /\ Includes(context, <<"l","i","d">>)
      THEN << <<"r","e","m","o","v","e"," ","l","i","d","s">> >> ELSE <<>>)
  \o (IF Includes(context, <<"l","a","b","e","l">>) THEN << <<"l","a","b","e","l","s"," ","O","K">> >> ELSE <<>>)

\* width of the context taken on each side of the matched term
ContextChars == 50

\* notes that take the instructions of the latest result that has some
extractNotesOverwriting(text, term, canonical, notesMap) ==
  LET idx == IndexOf(text, term)
  IN IF idx = -1 THEN notesMap
     ELSE LET start == Max(0, idx - ContextChars)
              end == Min(Len(text), idx + Len(term) + ContextChars)
              context == Slice(text, start, end)
              instructions == Instructions(context)
          IN IF Len(instructions) > 0
             THEN LET formatted == Join(instructions)
                  IN [m \in DOMAIN notesMap \cup {canonical} |->
                        IF m = canonical
                        THEN ToUpperCase(<<formatted[1]>>)
                               \o Slice(formatted, 1, Len(formatted))
                        ELSE notesMap[m]]
             ELSE notesMap

\* a search for the instructions in the whole snippet
extractNotesAnywhere(text, term, canonical, notesMap) ==
  LET instructions == Instructions(text)
  IN IF IndexOf(text, term) # -1 /\ Len(instructions) > 0
        /\ canonical \notin DOMAIN notesMap
     THEN LET formatted == Join(instructions)
          IN notesMap @@
               (canonical :> (ToUpperCase(<<formatted[1]>>)
                                \o Slice(formatted, 1, Len(formatted))))
     ELSE notesMap

\* the note map after extractNotes(text, term, canonical, notesMap); the map
\* is a function from the canonical names that have a note
extractNotes(text, term, canonical, notesMap) ==
  LET idx == IndexOf(text, term)
  IN IF idx = -1 THEN notesMap
     ELSE LET start == Max(0, idx - ContextChars)
              end == Min(Len(text), idx + Len(term) + ContextChars)
              context == Slice(text, start, end)
              instructions == Instructions(context)
          IN IF Len(instructions) > 0 /\ canonical \notin DOMAIN notesMap
             THEN LET formatted == Join(instructions)
                  IN notesMap @@
                       (canonical :> (ToUpperCase(<<formatted[1]>>)
                                        \o Slice(formatted, 1, Len(formatted))))
             ELSE notesMap

\* ------------------------------------------------- extractRules: the scan
\* index of the first variation found in the text, 0 when none is
FirstMatch(variations, text) ==
  IF \E k \in 1..Len(variations) : Includes(text, variations[k])
  THEN CHOOSE k \in 1..Len(variations) :
         /\ Includes(text, variations[k])
         /\ \A j \in 1..(k - 1) : ~Includes(text, variations[j])
  ELSE 0

\* REJECTION_PATTERNS.some(p => text.includes(p))
HasRejectionContext(text) ==
  \E k \in 1..Len(REJECTION_PATTERNS) : Includes(text, REJECTION_PATTERNS[k])

\* ALWAYS_NOT_ACCEPTED.some(a => term.includes(a))
IsAlwaysNotAccepted(term) ==
  \E k \in 1..Len(ALWAYS_NOT_ACCEPTED) : Includes(term, ALWAYS_NOT_ACCEPTED[k])

\* a gate that lets every matched term through
GateOpen(text, term) == TRUE

\* the condition under which a matched not-accepted term is recorded
RejectionGate(text, term) ==
  HasRejectionContext(text) \/ IsAlwaysNotAccepted(term)

\* an accepted loop that looks for instructions only in the result that
\* discovers the material
RECURSIVE ScanAcceptedNotingDiscovery(_, _, _, _)
ScanAcceptedNotingDiscovery(k, text, url, acc) ==
  LET entries == MATERIAL_DATABASE.accepted
  IN IF k > Len(entries) THEN acc
     ELSE LET e == entries[k]
              m == FirstMatch(e.variations, text)
          IN ScanAcceptedNotingDiscovery(k + 1, text, url,
               IF m = 0 THEN acc
               ELSE [acc EXCEPT
                       !.acceptedBySource = MapAddSource(@, e.canonical, url),
                       !.restrictionNotes =
                          IF MapHas(acc.acceptedBySource, e.canonical) THEN @
                          ELSE extractNotes(text, e.variations[m], e.canonical, @)])

\* the accumulators after the accepted loop over one result, from entry k on
RECURSIVE ScanAccepted(_, _, _, _)
ScanAccepted(k, text, url, acc) ==
  LET entries == MATERIAL_DATABASE.accepted
  IN IF k > Len(entries) THEN acc
     ELSE LET e == entries[k]
              m == FirstMatch(e.variations, text)
          IN ScanAccepted(k + 1, text, url,
               IF m = 0 THEN acc
               ELSE [acc EXCEPT
                       !.acceptedBySource = MapAddSource(@, e.canonical, url),
                       !.restrictionNotes =
                          extractNotes(text, e.variations[m], e.canonical, @)])

\* a second loop that records what the accepted loop recorded
ScanAcceptedAgain(k, text, url, acc) ==
  [acc EXCEPT !.notAcceptedBySource = acc.acceptedBySource]

\* the accumulators after the not-accepted loop over one result
RECURSIVE ScanNotAccepted(_, _, _, _)
ScanNotAccepted(k, text, url, acc) ==
  LET entries == MATERIAL_DATABASE.notAccepted
  IN IF k > Len(entries) THEN acc
     ELSE LET e == entries[k]
              m == FirstMatch(e.variations, text)
          IN ScanNotAccepted(k + 1, text, url,
               IF m = 0 \/ ~RejectionGate(text, e.variations[m]) THEN acc
               ELSE [acc EXCEPT
                       !.notAcceptedBySource = MapAddSource(@, e.canonical, url),
                       !.restrictionNotes =
                          extractNotes(text, e.variations[m], e.canonical, @)])

\* (result.snippet || '').toLowerCase()
SnippetText(result) ==
  IF result.snippet = Undefined THEN <<>> ELSE ToLowerCase(result.snippet)

\* one iteration of the loop over the search results
ScanOne(result, acc) ==
  LET text == SnippetText(result)
      url == result.url
  IN ScanNotAccepted(1, text, url, ScanAccepted(1, text, url, acc))

\* the three Maps at the start of extractRules
EmptyAccumulators ==
  [acceptedBySource |-> <<>>, notAcceptedBySource |-> <<>>,
   restrictionNotes |-> <<>>]

\* ---------------------------------------- extractRules: the material lists
\* a threshold of three sources
ConfidenceFromThree(size) == IF size > 2 THEN "high" ELSE "medium"

\* a threshold of one source
ConfidenceFromOne(size) == IF size >= 1 THEN "high" ELSE "medium"

\* sources.size >= 2 ? 'high' : 'medium'
Confidence(size) == IF size >= 2 THEN "high" ELSE "medium"

\* the item built for one entry of acceptedBySource
AcceptedItem(entry, notesMap) ==
  [material |-> entry.material,
   notes |-> IF entry.material \in DOMAIN notesMap
             THEN notesMap[entry.material] ELSE <<>>,
   confidence |-> Confidence(Cardinality(entry.sources)),
   sourceCount |-> Cardinality(entry.sources)]

\* the item built for one entry of notAcceptedBySource
NotAcceptedItem(entry, notesMap) ==
  [material |-> entry.material,
   notes |-> IF entry.material \in DOMAIN notesMap
             THEN notesMap[entry.material] ELSE <<"C","h","e","c","k"," ","l","o","c","a","l"," ","d","r","o","p","-","o","f","f"," ","o","p","t","i","o","n","s">>,
   confidence |-> Confidence(Cardinality(entry.sources)),
   sourceCount |-> Cardinality(entry.sources)]

\* b.sourceCount - a.sourceCount || a.material.localeCompare(b.material)
ByCountThenName(a, b) ==
  IF b.sourceCount - a.sourceCount # 0
  THEN b.sourceCount - a.sourceCount
  ELSE LocaleCompare(a.material, b.material)

\* a comparator that leaves the items in the order they were found
AsFound(a, b) == 0

\* a.material.localeCompare(b.material)
ByName(a, b) == LocaleCompare(a.material, b.material)

\* a single-source item appended as it is
AsItIs(item) == item

\* item.notes = item.notes || 'Verify with local guidelines'
WithVerifyNote(item) ==
  [item EXCEPT !.notes = IF @ = <<>> THEN <<"V","e","r","i","f","y"," ","w","i","t","h"," ","l","o","c","a","l"," ","g","u","i","d","e","l","i","n","e","s">> ELSE @]

\* the accepted list before deduplication: the multi-source items sorted,
\* then the single-source items sorted, each with a verification note
AcceptedList(acc) ==
  LET items == Tuple([k \in 1..Len(acc.acceptedBySource) |->
                  AcceptedItem(acc.acceptedBySource[k], acc.restrictionNotes)])
      multi == SelectSeq(items, LAMBDA it : it.sourceCount >= 2)
      single == SelectSeq(items, LAMBDA it : ~(it.sourceCount >= 2))
      sortedSingle == SortStable(single, ByName)
  IN SortStable(multi, ByCountThenName)
       \o Tuple([k \in 1..Len(sortedSingle) |-> WithVerifyNote(sortedSingle[k])])

\* the not-accepted list before deduplication
NotAcceptedList(acc) ==
  SortStable(Tuple([k \in 1..Len(acc.notAcceptedBySource) |->
                NotAcceptedItem(acc.notAcceptedBySource[k], acc.restrictionNotes)]),
             ByCountThenName)

\* ---------------------------------------------------- deduplicateMaterials
\* b.material.length - a.material.length
ByLengthDesc(a, b) == Len(b.material) - Len(a.material)

\* a comparator that leaves the retained items in the order of the walk
InWalkOrder(a, b) == 0

\* (b.sourceCount || 0) - (a.sourceCount || 0)
BySourceCountDesc(a, b) == b.sourceCount - a.sourceCount

\* a test that also looks for the words of the seen names inside the name
IsDuplicateEitherWay(material, seen) ==
  \E seenMaterial \in seen :
    \/ \E w \in Range(Split(ToLowerCase(material))) :
         Includes(ToLowerCase(seenMaterial), w) /\ Len(w) > 3
    \/ \E w \in Range(Split(ToLowerCase(seenMaterial))) :
         Includes(ToLowerCase(material), w) /\ Len(w) > 3

\* some word of the name, longer than 3 characters, is inside a seen name
IsDuplicate(material, seen) ==
  LET words == Split(ToLowerCase(material))
  IN \E w \in 1..Len(words) :
       \E seenMaterial \in seen :
         Includes(ToLowerCase(seenMaterial), words[w]) /\ Len(words[w]) > 3

\* the retained items, walking the length-sorted candidates from index k
RECURSIVE DedupWalk(_, _, _, _)
DedupWalk(sorted, k, seen, result) ==
  IF k > Len(sorted) THEN result
  ELSE IF IsDuplicate(sorted[k].material, seen)
       THEN DedupWalk(sorted, k + 1, seen, result)
       ELSE DedupWalk(sorted, k + 1, seen \cup {sorted[k].material},
                      Append(result, sorted[k]))

deduplicateMaterials(materials) ==
  SortStable(DedupWalk(SortStable(materials, ByLengthDesc), 1, {}, <<>>),
             BySourceCountDesc)

\* --------------------------------------------------------- extractLocation
IsLetter(c) == c \in DOMAIN LowerOf \/ c \in DOMAIN UpperOf
IsSpace(c) == c \in {" ", "\t", "\n"}
IsUpper(c) == c \in DOMAIN LowerOf

\* String.prototype.trim
Trim(s) ==
  LET keep == {k \in 1..Len(s) : ~IsSpace(s[k])}
  IN IF keep = {} THEN <<>>
     ELSE SubSeq(s, CHOOSE a \in keep : \A b \in keep : a <= b,
                    CHOOSE a \in keep : \A b \in keep : a >= b)

\* the text after the bar at index p has the form  \s*([A-Za-z\s]+,\s*[A-Z]{2})\s*$
CityStateAfter(title, p) ==
  LET rest == SubSeq(title, p + 1, Len(title))
      commas == {k \in 1..Len(rest) : rest[k] = ","}
  IN /\ Cardinality(commas) = 1
     /\ LET c == CHOOSE k \in commas : TRUE
            before == SubSeq(rest, 1, c - 1)
            after == Trim(SubSeq(rest, c + 1, Len(rest)))
        IN /\ Len(before) >= 1
           /\ \A k \in 1..Len(before) : IsLetter(before[k]) \/ IsSpace(before[k])
           /\ Len(after) = 2
           /\ IsUpper(after[1]) /\ IsUpper(after[2])

\* the words that end a place name in a title
PlaceSuffixes == << <<"c","i","t","y">>, <<"c","o","u","n","t","y">>, <<"t","o","w","n">>, <<"v","i","l","l","a","g","e">>, <<"b","o","r","o","u","g","h">> >>

\* a place suffix starts at 0-based offset q of the lower-cased title
SuffixAt(lower, q) ==
  \E w \in 1..Len(PlaceSuffixes) : MatchesAt(lower, PlaceSuffixes[w], q)

\* 0-based start s and suffix offset q of a match of
\* /([A-Za-z\s]+(?:City|County|Town|Village|Borough))/i : the characters from
\* s to q are letters or spaces, at least one of them, and a suffix starts at q
PlaceMatch(title, s, q) ==
  /\ s < q
  /\ \A k \in (s + 1)..q : IsLetter(title[k]) \/ IsSpace(title[k])
  /\ SuffixAt(ToLowerCase(title), q)

\* result.title.match(...)[1].trim() of the two title patterns, or Undefined
TitleLocation(title) ==
  LET bars == {p \in 1..Len(title) : title[p] = "|" /\ CityStateAfter(title, p)}
      n == Len(title)
      starts == {s \in 0..(n - 1) : \E q \in 1..n : PlaceMatch(title, s, q)}
  IN IF bars # {}
     THEN Trim(SubSeq(title, (CHOOSE p \in bars : \A r \in bars : p <= r) + 1, n))
     ELSE IF starts # {}
     THEN LET s == CHOOSE a \in starts : \A b \in starts : a <= b
              qs == {q \in 1..n : PlaceMatch(title, s, q)}
              q == CHOOSE a \in qs : \A b \in qs : a >= b
              lower == ToLowerCase(title)
              w == CHOOSE x \in 1..Len(PlaceSuffixes) :
                     MatchesAt(lower, PlaceSuffixes[x], q)
          IN Trim(SubSeq(title, s + 1, q + Len(PlaceSuffixes[w])))
     ELSE Undefined

\* const cityMappings = {...}
cityMappings ==
  << <<<<"b","e","v","e","r","l","y","h","i","l","l","s">>, <<"B","e","v","e","r","l","y"," ","H","i","l","l","s">>>>,
     <<<<"l","o","s","a","n","g","e","l","e","s">>, <<"L","o","s"," ","A","n","g","e","l","e","s">>>>,
     <<<<"n","e","w","y","o","r","k">>, <<"N","e","w"," ","Y","o","r","k">>>>,
     <<<<"s","a","n","f","r","a","n","c","i","s","c","o">>, <<"S","a","n"," ","F","r","a","n","c","i","s","c","o">>>>,
     <<<<"s","a","n","d","i","e","g","o">>, <<"S","a","n"," ","D","i","e","g","o">>>>,
     <<<<"s","a","n","t","a","m","o","n","i","c","a">>, <<"S","a","n","t","a"," ","M","o","n","i","c","a">>>>,
     <<<<"l","o","n","g","b","e","a","c","h">>, <<"L","o","n","g"," ","B","e","a","c","h">>>> >>

\* city.replace(/([a-z])([A-Z])/g, '$1 $2')
RECURSIVE SplitCamel(_, _)
SplitCamel(s, k) ==
  IF k > Len(s) THEN <<>>
  ELSE IF k < Len(s) /\ s[k] \in DOMAIN UpperOf /\ s[k + 1] \in DOMAIN LowerOf
       THEN <<s[k], " ">> \o SplitCamel(s, k + 1)
       ELSE <<s[k]>> \o SplitCamel(s, k + 1)

\* the city name made from the first group of the URL pattern
CityFromDomain(city) ==
  LET key == ToLowerCase(city)
  IN IF \E k \in 1..Len(cityMappings) : cityMappings[k][1] = key
     THEN (CHOOSE pair \in Range(cityMappings) : pair[1] = key)[2]
     ELSE LET split == SplitCamel(city, 1)
          IN ToUpperCase(<<split[1]>>) \o Slice(split, 1, Len(split))

\* the first group of /(?:www\.)?([a-z]+)(?:city|county|town|village)?\.(gov|org)/i
\* in the URL: the run of letters before the first ".gov" or ".org" that
\* follows a letter; Undefined when the pattern does not match
UrlCity(url) ==
  LET lower == ToLowerCase(url)
      dots == {q \in 1..(Len(url) - 1) :
                 /\ IsLetter(url[q])
                 /\ (MatchesAt(lower, <<".","g","o","v">>, q) \/ MatchesAt(lower, <<".","o","r","g">>, q))}
  IN IF dots = {} THEN Undefined
     ELSE LET q == CHOOSE a \in dots : \A b \in dots : a <= b
              runs == {r \in 1..q : \A k \in r..q : IsLetter(url[k])}
              r == CHOOSE a \in runs : \A b \in runs : a <= b
          IN SubSeq(url, r, q)

\* the outcome of extractLocation from result k on: the location, or Raised
\* when match is called on a missing title or url
Raised == <<"TypeError">>

\* a loop without the breaks: the last result that matches decides
LocationOfLastMatch(zip, searchResults, k) ==
  LET Place(result) ==
        IF TitleLocation(result.title) # Undefined
        THEN TitleLocation(result.title)
        ELSE IF UrlCity(result.url) # Undefined
        THEN CityFromDomain(UrlCity(result.url))
        ELSE Undefined
      hits == {j \in k..Len(searchResults) : Place(searchResults[j]) # Undefined}
  IN IF hits = {} THEN <<"Z","I","P"," ">> \o zip
     ELSE Place(searchResults[CHOOSE j \in hits : \A h \in hits : j >= h])

RECURSIVE LocationFrom(_, _, _)
LocationFrom(zip, searchResults, k) ==
  IF k > Len(searchResults) THEN <<"Z","I","P"," ">> \o zip
  ELSE LET result == searchResults[k]
       IN IF result.title = Undefined THEN Raised
          ELSE IF TitleLocation(result.title) # Undefined
          THEN TitleLocation(result.title)
          ELSE IF result.url = Undefined THEN Raised
          ELSE IF UrlCity(result.url) # Undefined
          THEN CityFromDomain(UrlCity(result.url))
          ELSE LocationFrom(zip, searchResults, k + 1)

extractLocation(zip, searchResults) == LocationFrom(zip, searchResults, 1)

\* ------------------------------------------------------------- extractTips
\* /a/i.test(text)
TestCI(text, a) == Includes(ToLowerCase(text), a)

\* /a.*b/i.test(text): a, then b later on the same line
TestThen(text, a, b) ==
  LET lower == ToLowerCase(text)
  IN \E i \in 0..Len(text) : \E j \in 0..Len(text) :
       /\ MatchesAt(lower, a, i)
       /\ MatchesAt(lower, b, j)
       /\ i + Len(a) <= j
       /\ \A k \in (i + Len(a) + 1)..j : text[k] # "\n"

\* the tips whose pattern matches the text, in the order of tipPatterns
TipsOf(text) ==
  (IF TestCI(text, <<"r","i","n","s","e">>)
   THEN << <<"R","i","n","s","e"," ","c","o","n","t","a","i","n","e","r","s"," ","b","e","f","o","r","e"," ","r","e","c","y","c","l","i","n","g">> >> ELSE <<>>)
  \o (IF TestThen(text, <<"f","l","a","t","t","e","n">>, <<"c","a","r","d","b","o","a","r","d">>) \/ TestThen(text, <<"c","a","r","d","b","o","a","r","d">>, <<"f","l","a","t","t","e","n">>)
      THEN << <<"F","l","a","t","t","e","n"," ","c","a","r","d","b","o","a","r","d"," ","b","o","x","e","s">> >> ELSE <<>>)
  \o (IF TestCI(text, <<"e","m","p","t","y">>)
      THEN << <<"E","m","p","t","y"," ","c","o","n","t","a","i","n","e","r","s"," ","c","o","m","p","l","e","t","e","l","y">> >> ELSE <<>>)
  \o (IF TestThen(text, <<"c","l","e","a","n">>, <<"d","r","y">>) \/ TestThen(text, <<"d","r","y">>, <<"c","l","e","a","n">>)
      THEN << <<"K","e","e","p"," ","r","e","c","y","c","l","a","b","l","e","s"," ","c","l","e","a","n"," ","a","n","d"," ","d","r","y">> >> ELSE <<>>)
  \o (IF TestThen(text, <<"r","e","m","o","v","e">>, <<"c","a","p">>) \/ TestThen(text, <<"r","e","m","o","v","e">>, <<"l","i","d">>)
      THEN << <<"R","e","m","o","v","e"," ","c","a","p","s"," ","a","n","d"," ","l","i","d","s">> >> ELSE <<>>)
  \o (IF TestThen(text, <<"n","o">>, <<"b","a","g">>) \/ TestThen(text, <<"d","o","n","'","t">>, <<"b","a","g">>)
         \/ TestCI(text, <<"l","o","o","s","e">>)
      THEN << <<"P","l","a","c","e"," ","r","e","c","y","c","l","a","b","l","e","s"," ","l","o","o","s","e"," ","i","n"," ","b","i","n",","," ","n","o","t"," ","i","n"," ","b","a","g","s">> >> ELSE <<>>)
  \o (IF TestCI(text, <<"l","a","b","e","l">>)
      THEN << <<"L","a","b","e","l","s"," ","c","a","n"," ","s","t","a","y"," ","o","n"," ","c","o","n","t","a","i","n","e","r","s">> >> ELSE <<>>)

\* foundTips.add(tip) for each tip of a sequence: a Set keeps insertion order
RECURSIVE AddAll(_, _)
AddAll(found, tips) ==
  IF Len(tips) = 0 THEN found
  ELSE AddAll(IF tips[1] \in Range(found) THEN found ELSE Append(found, tips[1]),
              Tail(tips))

RECURSIVE TipsFrom(_, _, _)
TipsFrom(searchResults, k, found) ==
  IF k > Len(searchResults) THEN found
  ELSE TipsFrom(searchResults, k + 1,
         AddAll(found,
                TipsOf(IF searchResults[k].snippet = Undefined
                       THEN <<>> ELSE searchResults[k].snippet)))

extractTips(searchResults) == TipsFrom(searchResults, 1, <<>>)

\* ------------------------------------------------------ deduplicateSources
\* new URL(url).hostname for an http(s) URL: the lower-cased text between
\* "//" and the next "/", "?", "#" or ":"; Undefined when the constructor
\* throws (no scheme, an empty host, a missing url)
Hostname(url) ==
  LET lower == ToLowerCase(url)
      from == IF MatchesAt(lower, <<"h","t","t","p","s",":","/","/">>, 0) THEN 8
              ELSE IF MatchesAt(lower, <<"h","t","t","p",":","/","/">>, 0) THEN 7 ELSE 0
      stops == {k \in (from + 1)..Len(url) : url[k] \in {"/", "?", "#", ":"}}
      to == IF stops = {} THEN Len(url)
            ELSE (CHOOSE a \in stops : \A b \in stops : a <= b) - 1
  IN IF url = Undefined \/ from = 0 \/ to <= from
        \/ \E k \in (from + 1)..to : url[k] = " "
     THEN Undefined
     ELSE SubSeq(lower, from + 1, to)

\* a walk that leaves out the results whose URL does not parse
RECURSIVE SourcesThatParse(_, _, _, _)
SourcesThatParse(searchResults, k, seenDomains, sources) ==
  IF k > Len(searchResults) THEN sources
  ELSE LET result == searchResults[k]
           domain == Hostname(result.url)
       IN IF domain = Undefined \/ domain \in seenDomains
          THEN SourcesThatParse(searchResults, k + 1, seenDomains, sources)
          ELSE SourcesThatParse(searchResults, k + 1, seenDomains \cup {domain},
                                Append(sources, [title |-> result.title,
                                                 url |-> result.url]))

RECURSIVE SourcesFrom(_, _, _, _)
SourcesFrom(searchResults, k, seenDomains, sources) ==
  IF k > Len(searchResults) THEN sources
  ELSE LET result == searchResults[k]
           domain == Hostname(result.url)
           source == [title |-> result.title, url |-> result.url]
       IN IF domain = Undefined
          THEN SourcesFrom(searchResults, k + 1, seenDomains, Append(sources, source))
          ELSE IF domain \notin seenDomains
          THEN SourcesFrom(searchResults, k + 1, seenDomains \cup {domain},
                           Append(sources, source))
          ELSE SourcesFrom(searchResults, k + 1, seenDomains, sources)

deduplicateSources(searchResults) == SourcesFrom(searchResults, 1, {}, <<>>)

\* ---------------------------------------- extractRules: the returned record
\* the three fields without a default note
KeepNotes(item) ==
  [material |-> item.material, notes |-> item.notes, confidence |-> item.confidence]

\* notes || (confidence === 'high' ? 'Confirmed by multiple sources' : 'Verify with source')
CleanAccepted(item) ==
  [material |-> item.material,
   notes |-> IF item.notes # <<>> THEN item.notes
             ELSE IF item.confidence = "high"
                  THEN <<"C","o","n","f","i","r","m","e","d"," ","b","y"," ","m","u","l","t","i","p","l","e"," ","s","o","u","r","c","e","s">>
                  ELSE <<"V","e","r","i","f","y"," ","w","i","t","h"," ","s","o","u","r","c","e">>,
   confidence |-> item.confidence]

\* notes || 'Check local guidelines for disposal'
CleanNotAccepted(item) ==
  [material |-> item.material,
   notes |-> IF item.notes # <<>> THEN item.notes
             ELSE <<"C","h","e","c","k"," ","l","o","c","a","l"," ","g","u","i","d","e","l","i","n","e","s"," ","f","o","r"," ","d","i","s","p","o","s","a","l">>,
   confidence |-> item.confidence]

\* the entry returned when no accepted material was extracted
Placeholder ==
  [material |-> <<"S","e","e"," ","s","o","u","r","c","e","s"," ","b","e","l","o","w">>,
   notes |-> <<"C","o","u","l","d"," ","n","o","t"," ","e","x","t","r","a","c","t"," ","s","p","e","c","i","f","i","c"," ","m","a","t","e","r","i","a","l","s">>,
   confidence |-> "low"]

\* the cleaned list returned as it is, empty or not
AcceptedAsCleaned(cleanAccepted) == cleanAccepted

\* cleanAccepted.length > 0 ? cleanAccepted : [placeholder]
AcceptedOrPlaceholder(cleanAccepted) ==
  IF Len(cleanAccepted) > 0 THEN cleanAccepted ELSE <<Placeholder>>

\* extractLocation throws: extractRules ends with a TypeError
Throws(zip, searchResults) == extractLocation(zip, searchResults) = Raised

\* the part of extractRules after the loop over the results: the record it
\* returns when extractLocation does not throw
BuildRules(zip, searchResults, acc) ==
  LET deduplicatedAccepted == deduplicateMaterials(AcceptedList(acc))
      deduplicatedNotAccepted == deduplicateMaterials(NotAcceptedList(acc))
  IN [location |-> extractLocation(zip, searchResults),
      accepted |-> AcceptedOrPlaceholder(
         Tuple([k \in 1..Len(deduplicatedAccepted) |->
            CleanAccepted(deduplicatedAccepted[k])])),
      not_accepted |->
         Tuple([k \in 1..Len(deduplicatedNotAccepted) |->
            CleanNotAccepted(deduplicatedNotAccepted[k])]),
      tips |-> extractTips(searchResults),
      sources |-> deduplicateSources(searchResults),
      meta |-> [sourcesAnalyzed |-> Len(searchResults),
                materialsFound |-> Len(acc.acceptedBySource)
                                     + Len(acc.notAcceptedBySource)],
      error |-> Undefined]

\* the record getRecyclingRules returns when the search found nothing
NoResultsRules(zip) ==
  [location |-> <<"Z","I","P"," ">> \o zip,
   accepted |-> <<>>,
   not_accepted |-> <<>>,
   tips |-> <<>>,
   sources |-> <<>>,
   meta |-> [sourcesAnalyzed |-> 0, materialsFound |-> 0],
   error |-> <<"N","o"," ","r","e","c","y","c","l","i","n","g"," ","i","n","f","o"," ","f","o","u","n","d"," ","f","o","r"," ","t","h","i","s"," ","a","r","e","a">>]

\* a test of the number of results that no list passes
NeverEmpty(searchResults) == Len(searchResults) < 0

\* searchResults.length === 0
FoundNothing(searchResults) == Len(searchResults) = 0

\* the whole of extractRules as a function of its arguments
RECURSIVE ScanAll(_, _, _)
ScanAll(searchResults, k, acc) ==
  IF k > Len(searchResults) THEN acc
  ELSE ScanAll(searchResults, k + 1, ScanOne(searchResults[k], acc))

\* <<the Rules record>>, or <<>> when the call throws
extractRules(zip, searchResults) ==
  IF Throws(zip, searchResults) THEN <<>>
  ELSE <<BuildRules(zip, searchResults,
                    ScanAll(searchResults, 1, EmptyAccumulators))>>

\* -------------------------------------------------------- compareMaterials
\* JS null
Null == <<"null">>

\* a property of an object, Undefined when the object does not have it
Field(obj, f) == IF f \in DOMAIN obj THEN obj[f] ELSE Undefined

\* the lower-cased canonical name and variations of every entry, in order
RECURSIVE VocabularyOf(_, _)
VocabularyOf(entries, k) ==
  IF k > Len(entries) THEN <<>>
  ELSE <<ToLowerCase(entries[k].canonical)>>
         \o Tuple([v \in 1..Len(entries[k].variations) |->
               ToLowerCase(entries[k].variations[v])])
         \o VocabularyOf(entries, k + 1)

\* the strings of a sequence in the order of their first occurrence: the
\* iteration order of a Set they were added to
InsertionOrder(seq) ==
  LET keep == {k \in 1..Len(seq) : \A j \in 1..(k - 1) : seq[j] # seq[k]}
  IN Tuple([p \in 1..Cardinality(keep) |->
        seq[CHOOSE k \in keep : Cardinality({j \in keep : j <= k}) = p]])

\* the Sets as they are after the loops over the taxonomy
AcceptedVocabulary == InsertionOrder(VocabularyOf(MATERIAL_DATABASE.accepted, 1))
NotAcceptedVocabulary == InsertionOrder(VocabularyOf(MATERIAL_DATABASE.notAccepted, 1))

\* the lookup Set of one category: the taxonomy, then the materials of the
\* location's list
LookupSet(vocabulary, ruleList) ==
  AddAll(vocabulary,
         Tuple([k \in 1..Len(ruleList) |-> ToLowerCase(ruleList[k].material)]))

\* term.includes(candidate) || candidate.includes(term)
Overlaps(term, candidate) == Includes(term, candidate) \/ Includes(candidate, term)

\* the length of the longer of the two strings
LengthOfLonger(term, candidate) == Max(Len(term), Len(candidate))

\* Math.min(term.length, candidate.length)
Specificity(term, candidate) == Min(Len(term), Len(candidate))

\* the pairs <<candidate index, term index>> for which the condition of the
\* inner if holds
OverlappingPairs(lookup, searchTerms) ==
  {p \in (1..Len(lookup)) \X (1..Len(searchTerms)) :
     Overlaps(searchTerms[p[2]], lookup[p[1]])}

\* the highest specificity over the overlapping pairs, as the loop leaves it:
\* a pair is recorded when its specificity is above the 0 the variable
\* starts with
MatchSpecificity(lookup, searchTerms, pairs) ==
  LET found == {Specificity(searchTerms[p[2]], lookup[p[1]]) : p \in pairs}
  IN IF found = {} THEN 0
     ELSE CHOOSE s \in found : \A x \in found : s >= x

\* the search term in use at the last assignment of matchedRule: the first
\* pair, candidates outermost, that reaches the final specificity
MatchTerm(lookup, searchTerms, pairs) ==
  LET best == MatchSpecificity(lookup, searchTerms, pairs)
      hits == {p \in pairs : Specificity(searchTerms[p[2]], lookup[p[1]]) = best}
      first == CHOOSE p \in hits : \A q \in hits :
                 p[1] < q[1] \/ (p[1] = q[1] /\ p[2] <= q[2])
  IN searchTerms[first[2]]

\* list?.find(pred): <<the first element that satisfies it>>, or <<>>
FindFirst(list, Pred(_)) ==
  LET hits == {k \in 1..Len(list) : Pred(list[k])}
  IN IF hits = {} THEN <<>>
     ELSE <<list[CHOOSE k \in hits : \A j \in hits : k <= j]>>

\* recyclingRules.accepted?.find(r => r.material.toLowerCase().includes(term)
\*                                    || term.includes(r.material.toLowerCase()))
FindAcceptedRule(recyclingRules, term) ==
  FindFirst(recyclingRules.accepted,
            LAMBDA r : Overlaps(term, ToLowerCase(r.material)))

\* recyclingRules.not_accepted?.find(...) over the item name and the material
FindNotAcceptedRule(recyclingRules, itemName, materialLower) ==
  FindFirst(recyclingRules.not_accepted,
            LAMBDA r : \/ Overlaps(itemName, ToLowerCase(r.material))
                       \/ Overlaps(materialLower, ToLowerCase(r.material)))

\* matchedRule?.notes || fallback
NotesOr(matchedRule, fallback) ==
  IF Len(matchedRule) = 1 /\ matchedRule[1].notes # <<>>
  THEN matchedRule[1].notes ELSE fallback

\* a tie that goes to the not-accepted side
AcceptedStrictlyAhead(acceptedSpecificity, notAcceptedSpecificity) ==
  acceptedSpecificity > notAcceptedSpecificity

\* acceptedMatchSpecificity >= notAcceptedMatchSpecificity
AcceptedWins(acceptedSpecificity, notAcceptedSpecificity) ==
  acceptedSpecificity >= notAcceptedSpecificity

\* the result pushed for one material of an item
MaterialResult(itemName, material, recyclingRules) ==
  LET materialLower == ToLowerCase(material)
      searchTerms == <<itemName, materialLower>>
      acceptedMaterials == LookupSet(AcceptedVocabulary, recyclingRules.accepted)
      notAcceptedMaterials ==
        LookupSet(NotAcceptedVocabulary, recyclingRules.not_accepted)
      acceptedPairs == OverlappingPairs(acceptedMaterials, searchTerms)
      notAcceptedPairs == OverlappingPairs(notAcceptedMaterials, searchTerms)
      acceptedMatchSpecificity ==
        MatchSpecificity(acceptedMaterials, searchTerms, acceptedPairs)
      notAcceptedMatchSpecificity ==
        MatchSpecificity(notAcceptedMaterials, searchTerms, notAcceptedPairs)
      matchedAccepted == acceptedMatchSpecificity > 0
      matchedNotAccepted == notAcceptedMatchSpecificity > 0
      conflict == matchedAccepted /\ matchedNotAccepted
      acceptedWins == AcceptedWins(acceptedMatchSpecificity, notAcceptedMatchSpecificity)
      isAccepted == matchedAccepted /\ (conflict => acceptedWins)
      isNotAccepted == matchedNotAccepted /\ (conflict => ~acceptedWins)
      matchedRule ==
        IF conflict /\ ~acceptedWins
        THEN FindNotAcceptedRule(recyclingRules, itemName, materialLower)
        ELSE IF matchedAccepted
        THEN FindAcceptedRule(recyclingRules,
                              MatchTerm(acceptedMaterials, searchTerms, acceptedPairs))
        ELSE <<>>
  IN IF isNotAccepted
     THEN [material |-> material, status |-> "not_recyclable", recyclable |-> "false",
           reason |-> NotesOr(matchedRule, <<"N","o","t"," ","a","c","c","e","p","t","e","d"," ","i","n"," ","c","u","r","b","s","i","d","e"," ","r","e","c","y","c","l","i","n","g">>)]
     ELSE IF isAccepted
     THEN [material |-> material, status |-> "recyclable", recyclable |-> "true",
           notes |-> NotesOr(matchedRule, Null)]
     ELSE [material |-> material, status |-> "unknown", recyclable |-> "unknown",
           reason |-> <<"M","a","t","e","r","i","a","l"," ","n","o","t"," ","r","e","c","o","g","n","i","z","e","d"," ","-"," ","c","h","e","c","k"," ","l","o","c","a","l"," ","g","u","i","d","e","l","i","n","e","s">>]

\* the name of the item standing in for its missing materials
MaterialsOrName(item) ==
  IF "materials" \in DOMAIN item THEN item.materials ELSE <<Field(item, "name")>>

\* item.materials || []
ItemMaterials(item) ==
  IF "materials" \in DOMAIN item THEN item.materials ELSE <<>>

\* (item.name || '').toLowerCase()
ItemName(item) ==
  IF "name" \in DOMAIN item THEN ToLowerCase(item.name) ELSE <<>>

\* a verdict whose last branch increments unknownCount
VerdictCountingUnknown(materialResults) ==
  IF \E k \in 1..Len(materialResults) : materialResults[k].status = "not_recyclable"
  THEN [overallStatus |-> "not_recyclable", counter |-> "notRecyclableCount"]
  ELSE IF \E k \in 1..Len(materialResults) : materialResults[k].status = "recyclable"
  THEN [overallStatus |-> "recyclable", counter |-> "recyclableCount"]
  ELSE IF \E k \in 1..Len(materialResults) : materialResults[k].status = "unknown"
  THEN [overallStatus |-> "check_locally", counter |-> "unknownCount"]
  ELSE [overallStatus |-> "recyclable", counter |-> "unknownCount"]

\* a verdict that looks for an unrecognised material before an accepted one
VerdictUnknownFirst(materialResults) ==
  IF \E k \in 1..Len(materialResults) : materialResults[k].status = "not_recyclable"
  THEN [overallStatus |-> "not_recyclable", counter |-> "notRecyclableCount"]
  ELSE IF \E k \in 1..Len(materialResults) : materialResults[k].status = "unknown"
  THEN [overallStatus |-> "check_locally", counter |-> "unknownCount"]
  ELSE [overallStatus |-> "recyclable", counter |-> "recyclableCount"]

\* the overall status of an item and the counter incremented with it, from
\* the results of its materials
Verdict(materialResults) ==
  LET itemRecyclable ==
        ~\E k \in 1..Len(materialResults) : materialResults[k].status = "not_recyclable"
      hasUnknown ==
        \E k \in 1..Len(materialResults) : materialResults[k].status = "unknown"
      hasRecyclableMaterial ==
        \E k \in 1..Len(materialResults) : materialResults[k].status = "recyclable"
  IN IF ~itemRecyclable
     THEN [overallStatus |-> "not_recyclable", counter |-> "notRecyclableCount"]
     ELSE IF hasRecyclableMaterial
     THEN [overallStatus |-> "recyclable", counter |-> "recyclableCount"]
     ELSE IF hasUnknown
     THEN [overallStatus |-> "check_locally", counter |-> "unknownCount"]
     ELSE [overallStatus |-> "recyclable", counter |-> "recyclableCount"]

\* the results of the materials of one detected item
MaterialResults(item, recyclingRules) ==
  Tuple([k \in 1..Len(ItemMaterials(item)) |->
     MaterialResult(ItemName(item), ItemMaterials(item)[k], recyclingRules)])

\* one iteration of the loop over the detected items: the record pushed to
\* results and the counter incremented
ItemOutcome(item, recyclingRules) ==
  LET materialResults == MaterialResults(item, recyclingRules)
      verdict == Verdict(materialResults)
  IN [result |-> [name |-> Field(item, "name"),
                  confidence |-> Field(item, "confidence"),
                  preparation |-> Field(item, "preparation"),
                  overallStatus |-> verdict.overallStatus,
                  materials |-> materialResults],
      counter |-> verdict.counter]

\* the value of one counter after the loop over the items
CountOf(outcomes, counter) ==
  Cardinality({k \in 1..Len(outcomes) : outcomes[k].counter = counter})

\* material.toLowerCase() on a material that is not a string throws
CompareThrows(detectedItems) ==
  \E k \in 1..Len(detectedItems) :
    \E m \in 1..Len(ItemMaterials(detectedItems[k])) :
      ItemMaterials(detectedItems[k])[m] = Undefined

\* the record compareMaterials returns for an array of items
compareMaterials(detectedItems, recyclingRules) ==
  LET outcomes == Tuple([k \in 1..Len(detectedItems) |->
                     ItemOutcome(detectedItems[k], recyclingRules)])
  IN [items |-> Tuple([k \in 1..Len(detectedItems) |-> outcomes[k].result]),
      location |-> IF recyclingRules.location = <<>>
                   THEN <<"U","n","k","n","o","w","n">> ELSE recyclingRules.location,
      summary |-> [recyclable |-> CountOf(outcomes, "recyclableCount"),
                   notRecyclable |-> CountOf(outcomes, "notRecyclableCount"),
                   unknown |-> CountOf(outcomes, "unknownCount"),
                   total |-> Len(detectedItems)],
      tips |-> recyclingRules.tips]

\* the record compareMaterials returns when detectedItems is not an array
NotAnArrayComparison ==
  [items |-> <<>>,
   summary |-> [recyclable |-> 0, notRecyclable |-> 0, unknown |-> 0]]

\* ------------------------------------------------------------ the inputs
\* ZIP codes asked for
Zips == { <<"9","0","2","1","0">> }

\* what the search provider may return for one organic result
ResultPool ==
  << [title |-> <<"R","e","c","y","c","l","i","n","g"," ","R","u","l","e","s"," ","|"," ","B","e","v","e","r","l","y"," ","H","i","l","l","s",","," ","C","A">>,
      url |-> <<"h","t","t","p","s",":","/","/","w","w","w",".","b","e","v","e","r","l","y","h","i","l","l","s",".","o","r","g","/","r","e","c","y","c","l","i","n","g">>,
      snippet |-> <<"P","l","e","a","s","e"," ","r","i","n","s","e"," ","p","l","a","s","t","i","c"," ","b","o","t","t","l","e","s"," ","b","e","f","o","r","e"," ","r","e","c","y","c","l","i","n","g",";"," ","p","l","a","s","t","i","c"," ","b","a","g","s"," ","a","r","e"," ","n","o","t"," ","a","c","c","e","p","t","e","d">>],
     [title |-> <<"R","e","c","y","c","l","i","n","g"," ","G","u","i","d","e">>,
      url |-> <<"h","t","t","p","s",":","/","/","l","a","c","i","t","y",".","g","o","v","/","r","e","c","y","c","l","e">>,
      snippet |-> <<"G","l","a","s","s"," ","b","o","t","t","l","e","s",","," ","g","l","a","s","s"," ","j","a","r","s"," ","a","n","d"," ","p","l","a","s","t","i","c"," ","c","o","n","t","a","i","n","e","r","s"," ","g","o"," ","i","n"," ","t","h","e"," ","b","l","u","e"," ","b","i","n","."," ","F","l","a","t","t","e","n"," ","c","a","r","d","b","o","a","r","d"," ","b","o","x","e","s",".">>],
     [title |-> <<"C","u","r","b","s","i","d","e"," ","p","i","c","k","u","p">>,
      url |-> <<"h","t","t","p","s",":","/","/","e","x","a","m","p","l","e",".","c","o","m","/","a">>,
      snippet |-> <<"p","l","a","s","t","i","c"," ","b","o","t","t","l","e","s"," ","a","n","d"," ","g","l","a","s","s"," ","b","o","t","t","l","e","s"," ","a","r","e"," ","a","c","c","e","p","t","e","d",";"," ","r","e","t","u","r","n"," ","p","l","a","s","t","i","c"," ","b","a","g","s"," ","t","o"," ","s","t","o","r","e","s">>],
     [title |-> <<"T","r","a","s","h"," ","a","n","d"," ","c","o","m","p","o","s","t">>,
      url |-> <<"h","t","t","p","s",":","/","/","w","w","w",".","b","e","v","e","r","l","y","h","i","l","l","s",".","o","r","g","/","t","r","a","s","h">>,
      snippet |-> <<"C","o","m","p","o","s","t"," ","f","o","o","d"," ","w","a","s","t","e",";"," ","r","e","c","y","c","l","e"," ","n","e","w","s","p","a","p","e","r">>],
     [title |-> <<"W","h","a","t"," ","g","o","e","s"," ","w","h","e","r","e">>,
      url |-> <<"h","t","t","p","s",":","/","/","e","x","a","m","p","l","e",".","c","o","m","/","b">>,
      snippet |-> <<"N","o"," ","f","o","o","d"," ","w","a","s","t","e"," ","o","r"," ","f","o","a","m","."," ","E","m","p","t","y"," ","a","l","u","m","i","n","u","m"," ","c","a","n","s"," ","a","n","d"," ","m","e","t","a","l"," ","c","a","n","s"," ","a","r","e"," ","O","K">>],
     [title |-> Undefined,
      url |-> <<"h","t","t","p","s",":","/","/","e","x","a","m","p","l","e",".","c","o","m","/","a">>,
      snippet |-> Undefined],
     [title |-> <<"T","r","a","s","h"," ","t","a","l","k">>,
      url |-> Undefined,
      snippet |-> <<"c","o","m","p","o","s","t"," ","f","o","o","d"," ","w","a","s","t","e"," ","a","n","d"," ","y","a","r","d"," ","w","a","s","t","e">>],
     [title |-> <<"O","r","a","n","g","e"," ","C","o","u","n","t","y"," ","W","a","s","t","e">>,
      url |-> <<"l","a","c","i","t","y",".","g","o","v","/","r","e","c","y","c","l","e">>,
      snippet |-> <<"E","m","p","t","y"," ","a","n","d"," ","r","i","n","s","e"," ","m","i","l","k"," ","c","a","r","t","o","n","s"," ","a","n","d"," ","p","l","a","s","t","i","c"," ","b","o","t","t","l","e","s","."," ","I","t","e","m","s"," ","m","a","y"," ","b","e"," ","p","l","a","c","e","d"," ","l","o","o","s","e"," ","i","n"," ","t","h","e"," ","b","l","u","e"," ","c","a","r","t",".">>],
     [title |-> <<"D","i","s","p","o","s","a","l">>,
      url |-> <<"h","t","t","p","s",":","/","/","e","x","a","m","p","l","e",".","c","o","m","/","c">>,
      snippet |-> <<"D","o","n","'","t"," ","p","u","t"," ","b","a","t","t","e","r","i","e","s",","," ","h","a","z","a","r","d","o","u","s"," ","w","a","s","t","e"," ","o","r"," ","y","a","r","d"," ","w","a","s","t","e"," ","i","n"," ","t","h","e"," ","c","a","r","t">>] >>

\* the sequences of at most n elements of a set
RECURSIVE SeqsUpTo(_, _)
SeqsUpTo(S, n) ==
  IF n = 0 THEN {<<>>}
  ELSE LET shorter == SeqsUpTo(S, n - 1)
       IN shorter \cup {Append(s, x) : s \in shorter, x \in S}

ResultSeqs == SeqsUpTo(Range(ResultPool), MaxResults)

\* the sequences extractRules is given when it is called on its own
DirectResultSeqs == SeqsUpTo(Range(ResultPool), 1)

\* the sequences of search results behind the rules that items are compared
\* against
CompareResultSeqs ==
  { <<>>, <<ResultPool[1]>>, <<ResultPool[2]>>, <<ResultPool[9]>>, <<ResultPool[6]>>,
    <<ResultPool[4], ResultPool[5]>> }

\* what the vision service may report for one detected item
ItemPool ==
  { [name |-> <<"p","l","a","s","t","i","c"," ","b","o","t","t","l","e">>, materials |-> << <<"p","l","a","s","t","i","c">> >>],
    [name |-> <<"P","l","a","s","t","i","c"," ","B","a","g">>, materials |-> << <<"p","l","a","s","t","i","c">> >>, confidence |-> <<"h","i","g","h">>],
    [name |-> <<"P","i","z","z","a"," ","b","o","x">>, materials |-> << <<"C","a","r","d","b","o","a","r","d">>, <<"f","o","o","d"," ","w","a","s","t","e">> >>,
     preparation |-> <<"r","e","m","o","v","e"," ","f","o","o","d">>],
    [materials |-> << <<"s","o","u","r","c","e","s">>, <<"c","a","r","d","b","o","a","r","d">> >>],
    [name |-> <<"m","y","s","t","e","r","y">>],
    [name |-> <<>>, materials |-> << <<>> >>],
    [name |-> <<"g","l","a","s","s">>, materials |-> << <<"g","l","a","s","s">>, <<>> >>],
    [name |-> <<"b","a","g">>, materials |-> << <<"p","l","a","s","t","i","c"," ","b","a","g","s">>, <<"p","a","p","e","r">> >>],
    [name |-> <<"j","a","r">>, materials |-> << Undefined >>] }

ItemSeqs == SeqsUpTo(ItemPool, MaxItems)

\* the candidate lists handed to deduplicateMaterials: at most MaxCandidates
\* materials of one category, each with 1 or 2 sources, in the order in
\* which extractRules builds its lists
MaxCandidates == 3

SubsetsUpTo(S, n) == {T \in SUBSET S : Cardinality(T) <= n}

\* the elements of a finite set, in some order
SeqOf(T) == CHOOSE s \in [1..Cardinality(T) -> T] : Range(s) = T

\* the list extractRules builds for the materials of names, count[n] sources each
CandidateList(names, count) ==
  SortStable(
    Tuple([k \in 1..Len(names) |->
       [material |-> names[k], notes |-> <<>>,
        confidence |-> Confidence(count[names[k]]),
        sourceCount |-> count[names[k]]]]),
    ByCountThenName)

CandidateLists(entries) ==
  UNION {{CandidateList(SeqOf(T), count) : count \in [T -> {1, 2}]}
         : T \in SubsetsUpTo(CanonicalNames(entries), MaxCandidates)}

\* ---------------------------------------------------------------- state
VARIABLES
  pc,             \* "idle", "scanning", "returned", "raised", "compared",
                  \* "deduplicated"
  entry,          \* the exported function the caller called
  zip,            \* its zip argument
  searchResults,  \* the search results it works on
  i,              \* index of the next result the loop of extractRules takes
  acc,            \* acceptedBySource, notAcceptedBySource, restrictionNotes
  rules,          \* <<the Rules record returned>>, <<>> before and on a throw
  detectedItems,  \* <<the array handed to compareMaterials>>, <<>> when what
                  \* is handed over is not an array
  comparison,     \* <<the Comparison record returned>>, <<>> before and on a throw
  candidates,     \* the list handed to deduplicateMaterials
  deduplicated    \* the list it returned

vars == <<pc, entry, zip, searchResults, i, acc, rules, detectedItems, comparison,
          candidates, deduplicated>>

Init ==
  /\ pc = "idle"
  /\ entry = "none"
  /\ zip = <<>>
  /\ searchResults = <<>>
  /\ i = 0
  /\ acc = EmptyAccumulators
  /\ rules = <<>>
  /\ detectedItems = <<>>
  /\ comparison = <<>>
  /\ candidates = <<>>
  /\ deduplicated = <<>>

\* getRecyclingRules(zip): the search, then the empty-result return or the
\* start of extractRules
GetRecyclingRules ==
  /\ pc = "idle"
  /\ \E z \in Zips, rs \in ResultSeqs :
       /\ zip' = z
       /\ searchResults' = rs
       /\ IF FoundNothing(rs)
          THEN pc' = "returned" /\ rules' = <<NoResultsRules(z)>> /\ i' = 0
          ELSE pc' = "scanning" /\ rules' = <<>> /\ i' = 1
  /\ entry' = "getRecyclingRules"
  /\ acc' = EmptyAccumulators
  /\ UNCHANGED <<detectedItems, comparison, candidates, deduplicated>>

\* a call that goes on with the Maps the call before it left
ExtractRulesCallSharingMaps ==
  /\ pc \in {"idle", "returned", "raised"}
  /\ \E z \in Zips, rs \in DirectResultSeqs :
       /\ zip' = z
       /\ searchResults' = rs
  /\ pc' = "scanning"
  /\ i' = 1
  /\ entry' = "extractRules"
  /\ rules' = <<>>
  /\ UNCHANGED <<acc, detectedItems, comparison, candidates, deduplicated>>

\* extractRules(zip, searchResults) called directly, as the first call or
\* after an earlier call has ended
ExtractRulesCall ==
  /\ pc \in {"idle", "returned", "raised"}
  /\ \E z \in Zips, rs \in DirectResultSeqs :
       /\ zip' = z
       /\ searchResults' = rs
  /\ pc' = "scanning"
  /\ i' = 1
  /\ entry' = "extractRules"
  /\ acc' = EmptyAccumulators
  /\ rules' = <<>>
  /\ UNCHANGED <<detectedItems, comparison, candidates, deduplicated>>

\* one iteration of  for (const result of searchResults)
ScanResult ==
  /\ pc = "scanning"
  /\ i <= Len(searchResults)
  /\ acc' = ScanOne(searchResults[i], acc)
  /\ i' = i + 1
  /\ UNCHANGED <<pc, entry, zip, searchResults, rules, detectedItems, comparison,
                 candidates, deduplicated>>

\* a finish that puts the caller's list in reverse order
FinishExtractReversing ==
  /\ pc = "scanning"
  /\ i > Len(searchResults)
  /\ IF Throws(zip, searchResults)
     THEN pc' = "raised" /\ rules' = <<>>
     ELSE pc' = "returned" /\ rules' = <<BuildRules(zip, searchResults, acc)>>
  /\ searchResults' =
       Tuple([k \in 1..Len(searchResults) |->
                searchResults[Len(searchResults) + 1 - k]])
  /\ UNCHANGED <<entry, zip, i, acc, detectedItems, comparison,
                 candidates, deduplicated>>

\* the rest of extractRules, from the end of the loop to its return or throw
FinishExtract ==
  /\ pc = "scanning"
  /\ i > Len(searchResults)
  /\ IF Throws(zip, searchResults)
     THEN pc' = "raised" /\ rules' = <<>>
     ELSE pc' = "returned" /\ rules' = <<BuildRules(zip, searchResults, acc)>>
  /\ UNCHANGED <<entry, zip, searchResults, i, acc, detectedItems, comparison,
                 candidates, deduplicated>>

\* the caller is done with the result; the next request may come
NextRequest ==
  /\ pc \in {"returned", "raised", "compared", "deduplicated"}
  /\ pc' = "idle"
  /\ entry' = "none"
  /\ zip' = <<>>
  /\ searchResults' = <<>>
  /\ i' = 0
  /\ acc' = EmptyAccumulators
  /\ rules' = <<>>
  /\ detectedItems' = <<>>
  /\ comparison' = <<>>
  /\ candidates' = <<>>
  /\ deduplicated' = <<>>

Next ==
  \/ GetRecyclingRules
  \/ ExtractRulesCall
  \/ ScanResult
  \/ FinishExtract
  \/ NextRequest

Spec == Init /\ [][Next]_vars

\* -------------------------------------- check-recyclability: the comparison
\* const recyclingRules = await getRecyclingRules(resolvedZip), as one step
FetchRules ==
  /\ pc = "idle"
  /\ \E z \in Zips, rs \in CompareResultSeqs :
       /\ zip' = z
       /\ searchResults' = rs
       /\ acc' = ScanAll(rs, 1, EmptyAccumulators)
       /\ i' = Len(rs) + 1
       /\ IF FoundNothing(rs)
          THEN pc' = "returned" /\ rules' = <<NoResultsRules(z)>>
          ELSE IF Throws(z, rs)
          THEN pc' = "raised" /\ rules' = <<>>
          ELSE pc' = "returned" /\ rules' = extractRules(z, rs)
  /\ entry' = "getRecyclingRules"
  /\ UNCHANGED <<detectedItems, comparison, candidates, deduplicated>>

\* comparison = compareMaterials(items, recyclingRules)
CompareMaterials ==
  /\ pc = "returned"
  /\ \E items \in ItemSeqs :
       /\ detectedItems' = <<items>>
       /\ IF CompareThrows(items)
          THEN pc' = "raised" /\ comparison' = <<>>
          ELSE pc' = "compared"
               /\ comparison' = <<compareMaterials(items, rules[1])>>
  /\ entry' = "compareMaterials"
  /\ UNCHANGED <<zip, searchResults, i, acc, rules, candidates, deduplicated>>

\* compareMaterials called with something that is not an array
CompareNotAnArray ==
  /\ pc = "returned"
  /\ detectedItems' = <<>>
  /\ comparison' = <<NotAnArrayComparison>>
  /\ pc' = "compared"
  /\ entry' = "compareMaterials"
  /\ UNCHANGED <<zip, searchResults, i, acc, rules, candidates, deduplicated>>

NextCompare ==
  \/ FetchRules
  \/ CompareMaterials
  \/ CompareNotAnArray
  \/ NextRequest

SpecCompare == Init /\ [][NextCompare]_vars

\* ------------------------------------------- deduplicateMaterials on its own
DeduplicateCall ==
  /\ pc = "idle"
  /\ \E list \in CandidateLists(MATERIAL_DATABASE.accepted)
                   \cup CandidateLists(MATERIAL_DATABASE.notAccepted) :
       /\ candidates' = list
       /\ deduplicated' = deduplicateMaterials(list)
  /\ pc' = "deduplicated"
  /\ entry' = "deduplicateMaterials"
  /\ UNCHANGED <<zip, searchResults, i, acc, rules, detectedItems, comparison>>

NextDedup ==
  \/ DeduplicateCall
  \/ NextRequest

SpecDedup == Init /\ [][NextDedup]_vars

\* ------------------------------------------------------- properties: rules
\* getRecyclingRules or extractRules has returned a Rules record
Returned == pc = "returned" /\ Len(rules) = 1

\* the material names of a list of entries
MaterialsOf(list) == {list[k].material : k \in 1..Len(list)}

\* the number of distinct source URLs the scan attributed a material to
SourceCount(map, material) ==
  IF MapHas(map, material) THEN Cardinality(MapGet(map, material)) ELSE 0

\* C1: when the search returns zero results, getRecyclingRules returns,
\* without raising and without running extractRules, a record whose accepted,
\* not_accepted, tips and sources are empty, whose meta.sourcesAnalyzed is 0,
\* whose location is "ZIP <zip>" and whose error is a non-null message.
ZeroResultsShortCircuit ==
  (entry = "getRecyclingRules" /\ searchResults = <<>>) =>
    /\ pc = "returned"
    /\ Len(rules) = 1
    /\ rules[1].accepted = <<>>
    /\ rules[1].not_accepted = <<>>
    /\ rules[1].tips = <<>>
    /\ rules[1].sources = <<>>
    /\ rules[1].meta.sourcesAnalyzed = 0
    /\ rules[1].location = <<"Z","I","P"," ">> \o zip
    /\ rules[1].error \notin {Undefined, Null, <<>>}

\* getRecyclingRules has returned for a search without results
ZeroResultsReturned ==
  /\ Returned
  /\ entry = "getRecyclingRules"
  /\ searchResults = <<>>
  /\ rules[1].error = <<"N","o"," ","r","e","c","y","c","l","i","n","g"," ","i","n","f","o"," ","f","o","u","n","d"," ","f","o","r"," ","t","h","i","s"," ","a","r","e","a">>

\* C2: the Rules returned by extractRules never have the same material name
\* in the accepted list and in the not-accepted list.
AcceptedDisjointFromNotAccepted ==
  Returned =>
    MaterialsOf(rules[1].accepted) \cap MaterialsOf(rules[1].not_accepted) = {}

\* a record with extracted materials in both lists has been returned
BothListsExtracted ==
  /\ Returned
  /\ Len(acc.acceptedBySource) > 0
  /\ Len(rules[1].not_accepted) > 0

\* the URLs of the results whose snippet has a synonym of the material
SynonymUrls(material, results) ==
  {results[k].url :
     k \in {j \in 1..Len(results) :
              FirstMatch(material.variations, SnippetText(results[j])) # 0}}

\* the URLs of the results whose snippet has a synonym of the material and in
\* which the first synonym found passes the rejection gate
GatedUrls(material, results) ==
  {results[k].url :
     k \in {j \in 1..Len(results) :
              LET text == SnippetText(results[j])
                  m == FirstMatch(material.variations, text)
              IN m # 0 /\ RejectionGate(text, material.variations[m])}}

\* the entries of a list for one material are all of high confidence
HighIn(list, canonical) ==
  \A j \in 1..Len(list) :
    list[j].material = canonical => list[j].confidence = "high"

\* C3 as stated: every material of either category with a synonym in the
\* snippets of results carrying at least 2 distinct URLs has an entry of
\* confidence "high".
TwoUrlsGiveHigh ==
  Returned =>
    /\ \A k \in 1..Len(MATERIAL_DATABASE.accepted) :
         Cardinality(SynonymUrls(MATERIAL_DATABASE.accepted[k], searchResults)) >= 2
           => HighIn(rules[1].accepted, MATERIAL_DATABASE.accepted[k].canonical)
    /\ \A k \in 1..Len(MATERIAL_DATABASE.notAccepted) :
         Cardinality(SynonymUrls(MATERIAL_DATABASE.notAccepted[k], searchResults)) >= 2
           => HighIn(rules[1].not_accepted, MATERIAL_DATABASE.notAccepted[k].canonical)

\* C3: an accepted material with a synonym in the snippets of results
\* carrying at least 2 distinct URLs, and a not-accepted material whose first
\* synonym found passes the rejection gate in results carrying at least 2
\* distinct URLs, has an entry of confidence "high" when it has an entry.
TwoGatedUrlsGiveHigh ==
  Returned =>
    /\ \A k \in 1..Len(MATERIAL_DATABASE.accepted) :
         Cardinality(SynonymUrls(MATERIAL_DATABASE.accepted[k], searchResults)) >= 2
           => HighIn(rules[1].accepted, MATERIAL_DATABASE.accepted[k].canonical)
    /\ \A k \in 1..Len(MATERIAL_DATABASE.notAccepted) :
         Cardinality(GatedUrls(MATERIAL_DATABASE.notAccepted[k], searchResults)) >= 2
           => HighIn(rules[1].not_accepted, MATERIAL_DATABASE.notAccepted[k].canonical)

\* a record with a two-URL entry in each list has been returned
TwoUrlEntriesReturned ==
  /\ Returned
  /\ \E k \in 1..Len(MATERIAL_DATABASE.accepted) :
       /\ Cardinality(SynonymUrls(MATERIAL_DATABASE.accepted[k], searchResults)) >= 2
       /\ MATERIAL_DATABASE.accepted[k].canonical \in MaterialsOf(rules[1].accepted)
  /\ \E k \in 1..Len(MATERIAL_DATABASE.notAccepted) :
       /\ Cardinality(GatedUrls(MATERIAL_DATABASE.notAccepted[k], searchResults)) >= 2
       /\ MATERIAL_DATABASE.notAccepted[k].canonical
            \in MaterialsOf(rules[1].not_accepted)

\* the confidence of one returned entry agrees with the sources of its material
ConfidenceAgrees(e, map) ==
  /\ e.confidence = "high" => SourceCount(map, e.material) >= 2
  /\ (MapHas(map, e.material) /\ e.confidence # "high") => e.confidence = "medium"

\* C4: in a returned record an entry is "high" only if its material was
\* attributed to at least 2 distinct source URLs, every other extracted entry
\* is "medium", and "low" is only on the single placeholder entry.
ConfidenceFollowsSourceCount ==
  Returned =>
    /\ \A e \in Range(rules[1].accepted) :
         /\ ConfidenceAgrees(e, acc.acceptedBySource)
         /\ e.confidence \in {"high", "medium", "low"}
         /\ e.confidence = "low" =>
              (e = Placeholder /\ rules[1].accepted = <<Placeholder>>)
    /\ \A e \in Range(rules[1].not_accepted) :
         /\ ConfidenceAgrees(e, acc.notAcceptedBySource)
         /\ e.confidence \in {"high", "medium"}

\* a record with a high and a medium entry has been returned
HighAndMediumReturned ==
  /\ Returned
  /\ \E e \in Range(rules[1].accepted) : e.confidence = "high"
  /\ \E e \in Range(rules[1].accepted) : e.confidence = "medium"
  /\ \E e \in Range(rules[1].not_accepted) : e.confidence = "medium"

\* C6: every entry of the accepted and not-accepted lists returned has a
\* non-empty notes string.
EveryEntryHasNotes ==
  Returned =>
    \A e \in Range(rules[1].accepted) \cup Range(rules[1].not_accepted) :
      e.notes # <<>>

\* a record with entries that carry the default notes has been returned
DefaultNotesReturned ==
  /\ Returned
  /\ \E e \in Range(rules[1].accepted) :
       e.notes = <<"C","o","n","f","i","r","m","e","d"," ","b","y"," ","m","u","l","t","i","p","l","e"," ","s","o","u","r","c","e","s">>
  /\ \E e \in Range(rules[1].not_accepted) :
       e.notes = <<"C","h","e","c","k"," ","l","o","c","a","l"," ","d","r","o","p","-","o","f","f"," ","o","p","t","i","o","n","s">>

\* ------------------------------------------- properties: deduplicateMaterials
\* some word of inner, longer than 3 characters, occurs in outer
WordOverlap(inner, outer) ==
  \E w \in Range(Split(ToLowerCase(inner))) :
    Len(w) > 3 /\ Includes(ToLowerCase(outer), w)

\* C5: whenever two candidates of one category overlap (a word longer than 3
\* characters of the shorter name occurs in the longer name), the longer one
\* is in the output of deduplicateMaterials.
LongerOfOverlappingPairKept ==
  pc = "deduplicated" =>
    \A a, b \in MaterialsOf(candidates) :
      (Len(a) > Len(b) /\ WordOverlap(b, a)) => a \in MaterialsOf(deduplicated)

\* ----------------------------------------------- properties: compareMaterials
\* compareMaterials has returned for an array of items
Compared == pc = "compared" /\ Len(detectedItems) = 1 /\ Len(comparison) = 1

\* const searchTerms = [itemName, materialLower] for material m of an item
SearchTermsOf(item, m) == <<ItemName(item), ToLowerCase(item.materials[m])>>

\* the two lookup Sets built from the rules the items are compared against
AcceptedLookup == LookupSet(AcceptedVocabulary, rules[1].accepted)
NotAcceptedLookup == LookupSet(NotAcceptedVocabulary, rules[1].not_accepted)

\* the best specificity of the search terms over the candidates of a lookup Set
BestSpecificity(lookup, searchTerms) ==
  MatchSpecificity(lookup, searchTerms, OverlappingPairs(lookup, searchTerms))

\* the <<item index, material index>> pairs of the items compared
DeclaredMaterials ==
  UNION {{<<k, m>> : m \in 1..Len(detectedItems[1][k].materials)} :
           k \in {j \in 1..Len(detectedItems[1]) :
                    "materials" \in DOMAIN detectedItems[1][j]}}

\* the status compareMaterials gave to a declared material
StatusOf(p) == comparison[1].items[p[1]].materials[p[2]].status

\* the scenario: "plastic bottle" made of "plastic" against rules accepting
\* "Plastic Bottles" is recyclable
PlasticBottleRecyclable ==
  \A k \in 1..Len(detectedItems[1]) :
    (/\ detectedItems[1][k]
          = [name |-> <<"p","l","a","s","t","i","c"," ","b","o","t","t","l","e">>, materials |-> << <<"p","l","a","s","t","i","c">> >>]
     /\ <<"P","l","a","s","t","i","c"," ","B","o","t","t","l","e","s">> \in MaterialsOf(rules[1].accepted))
      => comparison[1].items[k].materials[1].status = "recyclable"

\* C7 as stated: when an accepted candidate and a not-accepted candidate
\* both match (one string contains the other), the side with the strictly
\* higher best specificity determines the status and a tie is "recyclable".
ContainingSidesResolved ==
  Compared =>
    /\ \A p \in DeclaredMaterials :
         LET searchTerms == SearchTermsOf(detectedItems[1][p[1]], p[2])
             a == BestSpecificity(AcceptedLookup, searchTerms)
             n == BestSpecificity(NotAcceptedLookup, searchTerms)
         IN (/\ OverlappingPairs(AcceptedLookup, searchTerms) # {}
             /\ OverlappingPairs(NotAcceptedLookup, searchTerms) # {})
              => StatusOf(p) = IF n > a THEN "not_recyclable" ELSE "recyclable"
    /\ PlasticBottleRecyclable

\* C7: when an accepted candidate and a not-accepted candidate both match
\* with a specificity above 0, the side with the strictly higher best
\* specificity determines the status and a tie is "recyclable"; "plastic
\* bottle" made of "plastic" against rules accepting "Plastic Bottles" is
\* recyclable.
MoreSpecificSideWins ==
  Compared =>
    /\ \A p \in DeclaredMaterials :
         LET searchTerms == SearchTermsOf(detectedItems[1][p[1]], p[2])
             a == BestSpecificity(AcceptedLookup, searchTerms)
             n == BestSpecificity(NotAcceptedLookup, searchTerms)
         IN (a > 0 /\ n > 0)
              => StatusOf(p) = IF n > a THEN "not_recyclable" ELSE "recyclable"
    /\ PlasticBottleRecyclable

\* a comparison with a tie, a not-accepted side ahead and an accepted side ahead
ConflictsCompared ==
  /\ Compared
  /\ \E p \in DeclaredMaterials :
       LET searchTerms == SearchTermsOf(detectedItems[1][p[1]], p[2])
           a == BestSpecificity(AcceptedLookup, searchTerms)
           n == BestSpecificity(NotAcceptedLookup, searchTerms)
       IN a > 0 /\ a = n /\ StatusOf(p) = "recyclable"
  /\ \E p \in DeclaredMaterials :
       LET searchTerms == SearchTermsOf(detectedItems[1][p[1]], p[2])
           a == BestSpecificity(AcceptedLookup, searchTerms)
           n == BestSpecificity(NotAcceptedLookup, searchTerms)
       IN a > 0 /\ n > a /\ StatusOf(p) = "not_recyclable"

\* the number of item results with an overall status
ItemsWithStatus(status) ==
  Cardinality({k \in 1..Len(comparison[1].items) :
                 comparison[1].items[k].overallStatus = status})

\* C9: for an array of items, summary.recyclable, notRecyclable and unknown
\* are the numbers of item results that are recyclable, not_recyclable and
\* check_locally, total is the number of input items and the sum of the
\* three; for an empty array all four are 0.
SummaryCountsItems ==
  Compared =>
    LET summary == comparison[1].summary
    IN /\ Len(comparison[1].items) = Len(detectedItems[1])
       /\ summary.recyclable = ItemsWithStatus("recyclable")
       /\ summary.notRecyclable = ItemsWithStatus("not_recyclable")
       /\ summary.unknown = ItemsWithStatus("check_locally")
       /\ summary.total = Len(detectedItems[1])
       /\ summary.recyclable + summary.notRecyclable + summary.unknown
            = summary.total
       /\ detectedItems[1] = <<>> =>
            summary = [recyclable |-> 0, notRecyclable |-> 0,
                       unknown |-> 0, total |-> 0]

\* two items with different overall statuses have been counted
MixedSummaryCompared ==
  /\ Compared
  /\ comparison[1].summary.total = 2
  /\ comparison[1].summary.notRecyclable = 1
  /\ comparison[1].summary.unknown = 1

\* the indexes of the items that have no materials array
WithoutMaterials ==
  {k \in 1..Len(detectedItems[1]) : "materials" \notin DOMAIN detectedItems[1][k]}

StatusWithNameAsMaterial(item) ==
  ItemOutcome([name |-> item.name, materials |-> <<item.name>>],
              rules[1]).result.overallStatus

\* C11: an item without a materials array gets the verdict of the same item
\* with its name as its only material.
NameStandsForMissingMaterials ==
  Compared =>
    \A k \in WithoutMaterials :
      "name" \in DOMAIN detectedItems[1][k] =>
        comparison[1].items[k].overallStatus
          = StatusWithNameAsMaterial(detectedItems[1][k])

\* C12: extractRules and compareMaterials never raise.
NeverRaises == pc # "raised"

\* ------------------------------------------------ properties: extractLocation
\* <<the place name a result gives>>: from its title or, failing that, from
\* the domain of its URL; <<>> when neither pattern matches
PlaceOf(result) ==
  IF TitleLocation(result.title) # Undefined
  THEN <<TitleLocation(result.title)>>
  ELSE IF UrlCity(result.url) # Undefined
  THEN <<CityFromDomain(UrlCity(result.url))>>
  ELSE <<>>

\* the indexes of the results that give a place name
PlaceHits == {k \in 1..Len(searchResults) : PlaceOf(searchResults[k]) # <<>>}

\* C13: the location returned is the place name of the first result, in input
\* order, whose title or URL matches; it is "ZIP <zip>" exactly when no result
\* matches; the title "Recycling Rules | Beverly Hills, CA" gives
\* "Beverly Hills, CA".
FirstMatchDecidesLocation ==
  Returned =>
    /\ PlaceHits = {} <=> rules[1].location = <<"Z","I","P"," ">> \o zip
    /\ PlaceHits # {} =>
         rules[1].location
           = PlaceOf(searchResults[CHOOSE k \in PlaceHits :
                                     \A h \in PlaceHits : k <= h])[1]
    /\ (/\ Len(searchResults) >= 1
        /\ searchResults[1].title = <<"R","e","c","y","c","l","i","n","g"," ","R","u","l","e","s"," ","|"," ","B","e","v","e","r","l","y"," ","H","i","l","l","s",","," ","C","A">>)
         => rules[1].location = <<"B","e","v","e","r","l","y"," ","H","i","l","l","s",","," ","C","A">>

\* two results that give different places have been processed
TwoPlacesReturned ==
  /\ Returned
  /\ Len(searchResults) = 2
  /\ PlaceHits = {1, 2}
  /\ PlaceOf(searchResults[1]) # PlaceOf(searchResults[2])
  /\ searchResults[1].title = <<"R","e","c","y","c","l","i","n","g"," ","R","u","l","e","s"," ","|"," ","B","e","v","e","r","l","y"," ","H","i","l","l","s",","," ","C","A">>

\* --------------------------------------------------- properties: care notes
\* the care instructions in their fixed order, each with the keywords that
\* call for it
CareInstructions ==
  << [keywords |-> {<<"r","i","n","s","e">>}, says |-> <<"r","i","n","s","e"," ","b","e","f","o","r","e"," ","r","e","c","y","c","l","i","n","g">>],
     [keywords |-> {<<"f","l","a","t","t","e","n">>}, says |-> <<"f","l","a","t","t","e","n">>],
     [keywords |-> {<<"e","m","p","t","y">>}, says |-> <<"e","m","p","t","y"," ","c","o","m","p","l","e","t","e","l","y">>],
     [keywords |-> {<<"c","l","e","a","n">>}, says |-> <<"m","u","s","t"," ","b","e"," ","c","l","e","a","n">>],
     [keywords |-> {<<"d","r","y">>}, says |-> <<"k","e","e","p"," ","d","r","y">>],
     [keywords |-> {<<"r","e","m","o","v","e">>, <<"c","a","p">>}, says |-> <<"r","e","m","o","v","e"," ","c","a","p","s">>],
     [keywords |-> {<<"r","e","m","o","v","e">>, <<"l","i","d">>}, says |-> <<"r","e","m","o","v","e"," ","l","i","d","s">>],
     [keywords |-> {<<"l","a","b","e","l">>}, says |-> <<"l","a","b","e","l","s"," ","O","K">>] >>

\* the synonym, the 50 characters before it and the 50 characters after it,
\* at the first occurrence of the synonym in the text
CareWindow(text, synonym) ==
  LET at == IndexOf(text, synonym)
      inside == {p \in 1..Len(text) : at - 50 < p /\ p <= at + Len(synonym) + 50}
  IN SubSeq(text, CHOOSE a \in inside : \A b \in inside : a <= b,
                  CHOOSE a \in inside : \A b \in inside : a >= b)

\* the note made of the instructions whose keywords are in the window, <<>>
\* when there is none
CareNote(text, synonym) ==
  LET window == CareWindow(text, synonym)
      called == SelectSeq(CareInstructions,
                          LAMBDA c : \A w \in c.keywords : Includes(window, w))
      listed == Join(Tuple([k \in 1..Len(called) |-> called[k].says]))
  IN IF Len(called) = 0 THEN <<>>
     ELSE ToUpperCase(<<listed[1]>>) \o SubSeq(listed, 2, Len(listed))

\* the notes that stand for "no care instruction"
DefaultNotes ==
  { <<"V","e","r","i","f","y"," ","w","i","t","h"," ","l","o","c","a","l"," ","g","u","i","d","e","l","i","n","e","s">>, <<"C","o","n","f","i","r","m","e","d"," ","b","y"," ","m","u","l","t","i","p","l","e"," ","s","o","u","r","c","e","s">>,
    <<"V","e","r","i","f","y"," ","w","i","t","h"," ","s","o","u","r","c","e">>, <<"C","h","e","c","k"," ","l","o","c","a","l"," ","d","r","o","p","-","o","f","f"," ","o","p","t","i","o","n","s">>,
    <<"C","h","e","c","k"," ","l","o","c","a","l"," ","g","u","i","d","e","l","i","n","e","s"," ","f","o","r"," ","d","i","s","p","o","s","a","l">> }

\* the care notes that the results attributed to a material give, in the
\* order of the results; gated tells whether the rejection gate applies
CareNotesFor(material, gated) ==
  LET attributed ==
        SelectSeq(searchResults,
                  LAMBDA r :
                    LET m == FirstMatch(material.variations, SnippetText(r))
                    IN m # 0 /\ (gated => RejectionGate(SnippetText(r),
                                                        material.variations[m])))
      notes == Tuple([k \in 1..Len(attributed) |->
                 CareNote(SnippetText(attributed[k]),
                          material.variations[
                            FirstMatch(material.variations,
                                       SnippetText(attributed[k]))])])
  IN SelectSeq(notes, LAMBDA n : n # <<>>)

\* the entries of a list for a material carry the first care note given for
\* it, or a default note when none is
NotedIn(list, material, gated) ==
  \A j \in 1..Len(list) :
    list[j].material = material.canonical =>
      LET given == CareNotesFor(material, gated)
      IN IF Len(given) > 0 THEN list[j].notes = given[1]
         ELSE list[j].notes \in DefaultNotes

\* the snippet of the scenario
RinseSnippet ==
  <<"p","l","e","a","s","e"," ","r","i","n","s","e"," ","p","l","a","s","t","i","c"," ","b","o","t","t","l","e","s"," ","b","e","f","o","r","e"," ","r","e","c","y","c","l","i","n","g",";"," ","p","l","a","s","t","i","c"," ","b","a","g","s"," ","a","r","e"," ","n","o","t"," ","a","c","c","e","p","t","e","d">>

\* C14: the snippet "please rinse plastic bottles before recycling; plastic
\* bags are not accepted" gives an accepted "Plastic Bottles" entry whose note
\* mentions rinse and a not-accepted "Plastic Bags"; the note of a material
\* lists, in the fixed order, every care instruction whose keyword is within
\* 50 characters of the first occurrence of the matched synonym.
NotesListCareInstructions ==
  Returned =>
    /\ \A k \in 1..Len(MATERIAL_DATABASE.accepted) :
         NotedIn(rules[1].accepted, MATERIAL_DATABASE.accepted[k], FALSE)
    /\ \A k \in 1..Len(MATERIAL_DATABASE.notAccepted) :
         NotedIn(rules[1].not_accepted, MATERIAL_DATABASE.notAccepted[k], TRUE)
    /\ (Len(searchResults) = 1 /\ SnippetText(searchResults[1]) = RinseSnippet)
         => /\ \E e \in Range(rules[1].accepted) :
                 /\ e.material = <<"P","l","a","s","t","i","c"," ","B","o","t","t","l","e","s">>
                 /\ Includes(ToLowerCase(e.notes), <<"r","i","n","s","e">>)
            /\ <<"P","l","a","s","t","i","c"," ","B","a","g","s">> \in MaterialsOf(rules[1].not_accepted)

\* the scenario snippet and a snippet with two instructions have been processed
RinseAndEmptyNoted ==
  /\ Returned
  /\ Len(searchResults) = 2
  /\ SnippetText(searchResults[1]) = RinseSnippet
  /\ \E e \in Range(rules[1].accepted) :
       e.material = <<"P","l","a","s","t","i","c"," ","B","o","t","t","l","e","s">> /\ e.notes = <<"R","i","n","s","e"," ","b","e","f","o","r","e"," ","r","e","c","y","c","l","i","n","g">>
  /\ \E e \in Range(rules[1].accepted) :
       e.notes = <<"R","i","n","s","e"," ","b","e","f","o","r","e"," ","r","e","c","y","c","l","i","n","g",","," ","e","m","p","t","y"," ","c","o","m","p","l","e","t","e","l","y">>

\* ---------------------------------------------- properties: deduplicateSources
\* the results whose URL does not parse
Unparseable == {k \in 1..Len(searchResults) : Hostname(searchResults[k].url) = Undefined}

\* the results to keep: those whose URL does not parse, and the first result
\* of every hostname
SourcesToKeep ==
  Unparseable \cup
    {k \in 1..Len(searchResults) :
       /\ k \notin Unparseable
       /\ \A j \in 1..(k - 1) :
            j \in Unparseable
              \/ Hostname(searchResults[j].url) # Hostname(searchResults[k].url)}

\* C15: the sources returned are, in input order, the first result of each
\* distinct hostname among the results whose URL parses and every result
\* whose URL does not parse, each with its title and url only.
SourcesKeepFirstOfHostname ==
  Returned =>
    /\ Len(rules[1].sources) = Cardinality(SourcesToKeep)
    /\ \A p \in 1..Len(rules[1].sources) :
         LET k == CHOOSE x \in SourcesToKeep :
                    Cardinality({y \in SourcesToKeep : y <= x}) = p
         IN /\ DOMAIN rules[1].sources[p] = {"title", "url"}
            /\ rules[1].sources[p].title = searchResults[k].title
            /\ rules[1].sources[p].url = searchResults[k].url

\* two results of one hostname and different URLs have been processed
SourcesDeduplicated ==
  /\ Returned
  /\ Len(searchResults) = 2
  /\ Unparseable = {}
  /\ searchResults[1].url # searchResults[2].url
  /\ Len(rules[1].sources) = 1

SearchResultsNeverMutated ==
  [][pc = "scanning" => searchResults' = searchResults]_vars

\* extractRules has returned from a list of two different results
TwoDifferentResultsReturned ==
  /\ Returned
  /\ Len(searchResults) = 2
  /\ searchResults[1] # searchResults[2]
  /\ i = 3

\* ------------------------------------------- properties: status of an item
\* the statuses of the materials of item result k
MaterialStatuses(k) ==
  {comparison[1].items[k].materials[m].status :
     m \in 1..Len(comparison[1].items[k].materials)}

\* C18: the overallStatus of an item is not_recyclable if any of its
\* materials is not_recyclable; otherwise recyclable if any is recyclable,
\* even beside unknown ones; otherwise check_locally if any is unknown;
\* otherwise recyclable.
OverallStatusByPriority ==
  Compared =>
    \A k \in 1..Len(comparison[1].items) :
      comparison[1].items[k].overallStatus =
        IF "not_recyclable" \in MaterialStatuses(k) THEN "not_recyclable"
        ELSE IF "recyclable" \in MaterialStatuses(k) THEN "recyclable"
        ELSE IF "unknown" \in MaterialStatuses(k) THEN "check_locally"
        ELSE "recyclable"

\* one comparison with an item that has a rejected material and an item that
\* has an accepted material beside an unknown one
EveryPriorityCaseCompared ==
  /\ Compared
  /\ \E k \in 1..Len(comparison[1].items) :
       "not_recyclable" \in MaterialStatuses(k)
  /\ \E k \in 1..Len(comparison[1].items) :
       MaterialStatuses(k) = {"recyclable", "unknown"}

\* ------------------------------------------- properties: the rejection gate
\* the rejection markers as the claim lists them, and with "don't"
SevenMarkers ==
  { <<"n","o","t"," ","a","c","c","e","p","t","e","d">>, <<"d","o"," ","n","o","t">>, <<"c","a","n","n","o","t">>, <<"n","e","v","e","r">>, <<"p","r","o","h","i","b","i","t","e","d">>,
    <<"b","a","n","n","e","d">>, <<"n","o"," ">> }

EightMarkers == SevenMarkers \cup { <<"d","o","n","'","t">> }

\* the results scanned so far in this call
ScannedSoFar == SubSeq(searchResults, 1, i - 1)

\* the URLs of the scanned results in whose snippet a synonym of the
\* not-accepted material is found and either one of the markers is found or
\* the first synonym found is an always-not-accepted term
UrlsThroughGate(canonical, markers) ==
  LET variations ==
        (CHOOSE e \in Range(MATERIAL_DATABASE.notAccepted) :
           e.canonical = canonical).variations
  IN {ScannedSoFar[j].url :
        j \in {n \in 1..Len(ScannedSoFar) :
                 LET text == SnippetText(ScannedSoFar[n])
                     m == FirstMatch(variations, text)
                 IN /\ m # 0
                    /\ \/ \E p \in markers : Includes(text, p)
                       \/ variations[m] \in Range(ALWAYS_NOT_ACCEPTED)}}

\* every URL in the source set of a not-accepted material came through the
\* gate with these markers
AttributedOnlyThrough(markers) ==
  pc \in {"scanning", "returned", "raised"} =>
    \A k \in 1..Len(acc.notAcceptedBySource) :
      acc.notAcceptedBySource[k].sources
        \subseteq UrlsThroughGate(acc.notAcceptedBySource[k].material, markers)

\* C19 as stated: a result attributes its URL to a not-accepted material
\* only if its snippet has one of "not accepted", "do not", "cannot",
\* "never", "prohibited", "banned", "no ", or the matched synonym is an
\* always-not-accepted term.
GateOfSevenMarkers == AttributedOnlyThrough(SevenMarkers)

\* C19: a result attributes its URL to a not-accepted material only if its
\* snippet has one of "not accepted", "do not", "don't", "cannot", "never",
\* "prohibited", "banned", "no ", or the matched synonym is an
\* always-not-accepted term; a result that mentions a synonym and passes
\* neither adds nothing to the material's source set.
GateOfEightMarkers == AttributedOnlyThrough(EightMarkers)

\* two results mention a synonym of a not-accepted material and only one of
\* them is in the material's source set
MentionKeptOutByGate ==
  /\ Returned
  /\ \E k \in 1..Len(acc.notAcceptedBySource) :
       LET e == acc.notAcceptedBySource[k]
       IN /\ Cardinality(e.sources) = 1
          /\ Cardinality(SynonymUrls(
               CHOOSE d \in Range(MATERIAL_DATABASE.notAccepted) :
                 d.canonical = e.material, searchResults)) = 2

\* ------------------------------------------- properties: notes over a batch
\* C20: while extractRules goes through the search results, a note recorded
\* for a canonical material is not changed by any later result: the entry of
\* the notes mapping keeps its value until the batch ends.
NotesNeverOverwritten ==
  [][pc = "scanning" =>
       \A m \in DOMAIN acc.restrictionNotes :
         /\ m \in DOMAIN acc'.restrictionNotes
         /\ acc'.restrictionNotes[m] = acc.restrictionNotes[m]]_vars

\* a batch of two results has ended with a note that is not the one the
\* second result would give on its own
FirstNoteKeptOverSecond ==
  /\ Returned
  /\ Len(searchResults) = 2
  /\ LET alone == ScanOne(searchResults[2], EmptyAccumulators).restrictionNotes
     IN \E m \in DOMAIN acc.restrictionNotes \cap DOMAIN alone :
          alone[m] # acc.restrictionNotes[m]

\* ------------------------------- properties: the note and the first discovery
\* the care notes, <<>> where there is none, of the results attributed to a
\* material, in the order of the results
NotesByResult(material, gated) ==
  LET attributed ==
        SelectSeq(searchResults,
                  LAMBDA r :
                    LET m == FirstMatch(material.variations, SnippetText(r))
                    IN m # 0 /\ (gated => \/ HasRejectionContext(SnippetText(r))
                                          \/ IsAlwaysNotAccepted(material.variations[m])))
  IN Tuple([k \in 1..Len(attributed) |->
        CareNote(SnippetText(attributed[k]),
                 material.variations[
                   FirstMatch(material.variations, SnippetText(attributed[k]))])])

\* the first result attributed to the material gives no care instruction
DiscoveredWithoutNote(material, gated) ==
  /\ Len(NotesByResult(material, gated)) > 0
  /\ NotesByResult(material, gated)[1] = <<>>

\* the entries of a list for the material carry a default note
DefaultNoteIn(list, material) ==
  \A j \in 1..Len(list) :
    list[j].material = material.canonical => list[j].notes \in DefaultNotes

\* the entries of a list for the material carry the first care note that a
\* later result gives, or a default note when none gives one
LaterNoteIn(list, material, gated) ==
  LET later == SelectSeq(NotesByResult(material, gated), LAMBDA n : n # <<>>)
  IN \A j \in 1..Len(list) :
       list[j].material = material.canonical =>
         IF Len(later) > 0 THEN list[j].notes = later[1]
         ELSE list[j].notes \in DefaultNotes

\* C21 as stated: a material whose first matching result gives no care
\* instruction gets no extracted note from a later result and ends with the
\* default note.
NoteOnlyAtFirstDiscovery ==
  Returned =>
    /\ \A k \in 1..Len(MATERIAL_DATABASE.accepted) :
         DiscoveredWithoutNote(MATERIAL_DATABASE.accepted[k], FALSE)
           => DefaultNoteIn(rules[1].accepted, MATERIAL_DATABASE.accepted[k])
    /\ \A k \in 1..Len(MATERIAL_DATABASE.notAccepted) :
         DiscoveredWithoutNote(MATERIAL_DATABASE.notAccepted[k], TRUE)
           => DefaultNoteIn(rules[1].not_accepted, MATERIAL_DATABASE.notAccepted[k])

\* C21: a material's extracted note is written at the first result that
\* matches the material and gives a care instruction in its window: a
\* material whose first matching result gives none takes the note of the
\* first later matching result that gives one, and ends with the default note
\* only if no matching result gives one.
NoteAtFirstInstruction ==
  Returned =>
    /\ \A k \in 1..Len(MATERIAL_DATABASE.accepted) :
         DiscoveredWithoutNote(MATERIAL_DATABASE.accepted[k], FALSE)
           => LaterNoteIn(rules[1].accepted, MATERIAL_DATABASE.accepted[k], FALSE)
    /\ \A k \in 1..Len(MATERIAL_DATABASE.notAccepted) :
         DiscoveredWithoutNote(MATERIAL_DATABASE.notAccepted[k], TRUE)
           => LaterNoteIn(rules[1].not_accepted, MATERIAL_DATABASE.notAccepted[k], TRUE)

\* an accepted material discovered without an instruction has been returned
\* with the note of a later result
LaterNoteReturned ==
  /\ Returned
  /\ \E k \in 1..Len(MATERIAL_DATABASE.accepted) :
       /\ DiscoveredWithoutNote(MATERIAL_DATABASE.accepted[k], FALSE)
       /\ \E e \in Range(rules[1].accepted) :
            /\ e.material = MATERIAL_DATABASE.accepted[k].canonical
            /\ e.notes \notin DefaultNotes

\* ------------------------------------------- properties: order of the lists
\* the entries of a list come in descending source count and, among equal
\* counts, in alphabetical order of the material name
CountThenNameOrder(list, map) ==
  \A a \in 1..Len(list), b \in 1..Len(list) :
    (a < b /\ list[a] # Placeholder) =>
      \/ SourceCount(map, list[a].material) > SourceCount(map, list[b].material)
      \/ /\ SourceCount(map, list[a].material) = SourceCount(map, list[b].material)
         /\ LocaleCompare(list[a].material, list[b].material) < 0

\* C22: in the accepted list returned by extractRules the materials of 2 or
\* more URLs come first, by descending source count and alphabetically among
\* equal counts, then the single-source materials alphabetically; the
\* not-accepted list is by descending source count and alphabetically among
\* equal counts.
ListsByCountThenName ==
  Returned =>
    /\ CountThenNameOrder(rules[1].accepted, acc.acceptedBySource)
    /\ CountThenNameOrder(rules[1].not_accepted, acc.notAcceptedBySource)

\* ----------------------------------- properties: the order of the results
\* the sequence with the elements at k and k + 1 exchanged
SwapAt(seq, k) ==
  Tuple([j \in 1..Len(seq) |->
     IF j = k THEN seq[k + 1] ELSE IF j = k + 1 THEN seq[k] ELSE seq[j]])

\* the accepted and the not-accepted list extractRules builds from results
ListsAfter(results) ==
  LET scanned == ScanAll(results, 1, EmptyAccumulators)
      deduplicatedAccepted == deduplicateMaterials(AcceptedList(scanned))
      deduplicatedNotAccepted == deduplicateMaterials(NotAcceptedList(scanned))
  IN <<AcceptedOrPlaceholder(
         Tuple([k \in 1..Len(deduplicatedAccepted) |->
            CleanAccepted(deduplicatedAccepted[k])])),
       Tuple([k \in 1..Len(deduplicatedNotAccepted) |->
          CleanNotAccepted(deduplicatedNotAccepted[k])])>>

\* a list without the notes of its entries
WithoutNotes(list) ==
  Tuple([j \in 1..Len(list) |->
     [material |-> list[j].material, confidence |-> list[j].confidence]])

\* C23 as stated: for any two orderings of the same search results the
\* accepted and not-accepted lists are identical in materials, confidence,
\* notes and order. Every ordering is reached by exchanging neighbours.
OrderOfResultsIrrelevant ==
  Returned =>
    \A k \in 1..(Len(searchResults) - 1) :
      ListsAfter(SwapAt(searchResults, k))
        = <<rules[1].accepted, rules[1].not_accepted>>

\* C23: for any two orderings of the same search results the accepted and
\* not-accepted lists are identical in materials, confidence and order; the
\* note of a material is that of the first result, in processing order, that
\* gives one. Every ordering is reached by exchanging neighbours.
OrderOfResultsOnlyInNotes ==
  Returned =>
    \A k \in 1..(Len(searchResults) - 1) :
      LET other == ListsAfter(SwapAt(searchResults, k))
      IN /\ WithoutNotes(other[1]) = WithoutNotes(rules[1].accepted)
         /\ WithoutNotes(other[2]) = WithoutNotes(rules[1].not_accepted)

\* two results have been processed whose other ordering gives other notes
OtherOrderOtherNotes ==
  /\ Returned
  /\ Len(searchResults) = 2
  /\ ListsAfter(SwapAt(searchResults, 1))[1] # rules[1].accepted
  /\ Len(rules[1].accepted) > 1

\* --------------------------------- properties: the reason of a rejection
\* the not-accepted entries of the Rules, with notes, whose name contains or
\* is contained in the item name or the material p of the items
OverlappingNotAccepted(p) ==
  {e \in Range(rules[1].not_accepted) :
     /\ e.notes # <<>>
     /\ \E t \in Range(SearchTermsOf(detectedItems[1][p[1]], p[2])) :
          Overlaps(t, ToLowerCase(e.material))}

\* C24: a material classified not_recyclable has as its reason the notes of
\* a not-accepted entry of the Rules whose name overlaps the item name or the
\* material, when there is such an entry, and "Not accepted in curbside
\* recycling" only when there is none, whether or not an accepted candidate
\* matched as well.
ReasonFromOverlappingRule ==
  Compared =>
    \A p \in DeclaredMaterials :
      StatusOf(p) = "not_recyclable" =>
        LET reason == comparison[1].items[p[1]].materials[p[2]].reason
        IN IF OverlappingNotAccepted(p) # {}
           THEN reason \in {e.notes : e \in OverlappingNotAccepted(p)}
           ELSE reason = <<"N","o","t"," ","a","c","c","e","p","t","e","d"," ","i","n"," ","c","u","r","b","s","i","d","e"," ","r","e","c","y","c","l","i","n","g">>

\* ------------------------------------------- properties: the default notes
\* the entries of a list for a material that no result gave a care
\* instruction for carry the note that Default gives for their confidence
DefaultedIn(list, material, gated, Default(_)) ==
  \A j \in 1..Len(list) :
    (list[j].material = material.canonical
       /\ Len(CareNotesFor(material, gated)) = 0)
      => list[j].notes = Default(list[j].confidence)

\* the default note of an accepted entry, by the last defaults of the function
AcceptedCleanupDefault(confidence) ==
  IF confidence = "high" THEN <<"C","o","n","f","i","r","m","e","d"," ","b","y"," ","m","u","l","t","i","p","l","e"," ","s","o","u","r","c","e","s">>
  ELSE <<"V","e","r","i","f","y"," ","w","i","t","h"," ","s","o","u","r","c","e">>

\* the default note of a not-accepted entry, by the last defaults
NotAcceptedCleanupDefault(confidence) == <<"C","h","e","c","k"," ","l","o","c","a","l"," ","g","u","i","d","e","l","i","n","e","s"," ","f","o","r"," ","d","i","s","p","o","s","a","l">>

\* the default note of an accepted entry, by the first default that applies
AcceptedFirstDefault(confidence) ==
  IF confidence = "high" THEN <<"C","o","n","f","i","r","m","e","d"," ","b","y"," ","m","u","l","t","i","p","l","e"," ","s","o","u","r","c","e","s">>
  ELSE <<"V","e","r","i","f","y"," ","w","i","t","h"," ","l","o","c","a","l"," ","g","u","i","d","e","l","i","n","e","s">>

\* the default note of a not-accepted entry, by the first default that applies
NotAcceptedFirstDefault(confidence) == <<"C","h","e","c","k"," ","l","o","c","a","l"," ","d","r","o","p","-","o","f","f"," ","o","p","t","i","o","n","s">>

\* C25 as stated: an entry with no extracted care instruction has the note
\* "Confirmed by multiple sources" when accepted with high confidence,
\* "Verify with source" when accepted otherwise, and "Check local guidelines
\* for disposal" when not accepted.
CleanupDefaultsReturned ==
  Returned =>
    /\ \A k \in 1..Len(MATERIAL_DATABASE.accepted) :
         DefaultedIn(rules[1].accepted, MATERIAL_DATABASE.accepted[k], FALSE,
                     AcceptedCleanupDefault)
    /\ \A k \in 1..Len(MATERIAL_DATABASE.notAccepted) :
         DefaultedIn(rules[1].not_accepted, MATERIAL_DATABASE.notAccepted[k], TRUE,
                     NotAcceptedCleanupDefault)

\* C25: an entry with no extracted care instruction has the note "Confirmed
\* by multiple sources" when accepted with high confidence, "Verify with
\* local guidelines" when accepted otherwise, and "Check local drop-off
\* options" when not accepted.
FirstDefaultsReturned ==
  Returned =>
    /\ \A k \in 1..Len(MATERIAL_DATABASE.accepted) :
         DefaultedIn(rules[1].accepted, MATERIAL_DATABASE.accepted[k], FALSE,
                     AcceptedFirstDefault)
    /\ \A k \in 1..Len(MATERIAL_DATABASE.notAccepted) :
         DefaultedIn(rules[1].not_accepted, MATERIAL_DATABASE.notAccepted[k], TRUE,
                     NotAcceptedFirstDefault)

\* a record has been returned with a single-source accepted entry and a
\* not-accepted entry that no result gave a care instruction for
FirstDefaultsInBothLists ==
  /\ Returned
  /\ \E e \in Range(rules[1].accepted) :
       e.confidence = "medium" /\ e.notes = <<"V","e","r","i","f","y"," ","w","i","t","h"," ","l","o","c","a","l"," ","g","u","i","d","e","l","i","n","e","s">>
  /\ \E e \in Range(rules[1].not_accepted) :
       e.notes = <<"C","h","e","c","k"," ","l","o","c","a","l"," ","d","r","o","p","-","o","f","f"," ","o","p","t","i","o","n","s">>

\* ------------------------------------------- properties: the placeholder
\* some synonym of some accepted material of the taxonomy occurs in the
\* snippet of some search result
AcceptedSynonymOccurs ==
  \E r \in Range(searchResults), e \in Range(MATERIAL_DATABASE.accepted) :
    \E v \in Range(e.variations) : Includes(SnippetText(r), v)

\* a record built by extractRules has been returned, on a direct call or
\* through getRecyclingRules
ReturnedByExtractRules ==
  Returned /\ ~(entry = "getRecyclingRules" /\ searchResults = <<>>)

\* C26: the accepted list returned by extractRules is the single placeholder
\* entry exactly when no accepted synonym occurs in any snippet; when one
\* occurs, deduplication leaves at least one real entry and the placeholder
\* is absent.
PlaceholderIffNothingAccepted ==
  ReturnedByExtractRules =>
    /\ rules[1].accepted = <<Placeholder>> <=> ~AcceptedSynonymOccurs
    /\ AcceptedSynonymOccurs =>
         /\ Len(rules[1].accepted) >= 1
         /\ \A e \in Range(rules[1].accepted) :
              /\ e.material # Placeholder.material
              /\ e.material \in CanonicalNames(MATERIAL_DATABASE.accepted)

\* results that mention only not-accepted materials have been processed
PlaceholderBesideNotAccepted ==
  /\ Returned
  /\ entry = "extractRules"
  /\ Len(searchResults) = 1
  /\ rules[1].accepted = <<Placeholder>>
  /\ Len(rules[1].not_accepted) > 0

\* ----------------------------- properties: the placeholder in a comparison
\* the statuses of the materials of the items, item by item
StatusesIn(compared) ==
  Tuple([k \in 1..Len(compared.items) |->
     Tuple([m \in 1..Len(compared.items[k].materials) |->
        compared.items[k].materials[m].status])])

\* C27: against Rules whose accepted list is only the "See sources below"
\* placeholder, compareMaterials gives every material the status it gives
\* against the same Rules with an empty accepted list.
PlaceholderChangesNoVerdict ==
  (Compared /\ rules[1].accepted = <<Placeholder>>) =>
    StatusesIn(comparison[1])
      = StatusesIn(compareMaterials(detectedItems[1],
                                    [rules[1] EXCEPT !.accepted = <<>>]))

\* ------------------------------- properties: what deduplicateMaterials drops
\* the position of a name in the list handed to deduplicateMaterials
CandidateIndex(name) ==
  CHOOSE k \in 1..Len(candidates) : candidates[k].material = name

\* name a comes before name b in the walk: it is longer, or as long and
\* earlier in the list
WalkedBefore(a, b) ==
  \/ Len(a) > Len(b)
  \/ Len(a) = Len(b) /\ CandidateIndex(a) < CandidateIndex(b)

CountsDoNotIncrease(list, map) ==
  \A a \in 1..Len(list), b \in 1..Len(list) :
    a < b =>
      /\ SourceCount(map, list[a].material) >= SourceCount(map, list[b].material)
      /\ ~(list[a].confidence = "medium" /\ list[b].confidence = "high")

\* C29: in the accepted and in the not-accepted list returned by
\* extractRules the entries are in non-increasing order of source count, so
\* no "medium" entry precedes a "high" entry.
HighBeforeMedium ==
  ReturnedByExtractRules =>
    /\ CountsDoNotIncrease(rules[1].accepted, acc.acceptedBySource)
    /\ CountsDoNotIncrease(rules[1].not_accepted, acc.notAcceptedBySource)

\* a list has been returned in which a "high" entry stands before a "medium"
\* entry of a longer name
ShortHighBeforeLongMedium ==
  /\ Returned
  /\ \E a \in 1..Len(rules[1].accepted), b \in 1..Len(rules[1].accepted) :
       /\ a < b
       /\ rules[1].accepted[a].confidence = "high"
       /\ rules[1].accepted[b].confidence = "medium"
       /\ Len(rules[1].accepted[a].material) < Len(rules[1].accepted[b].material)

\* ------------------------------------- properties: empty search terms
\* the highest min(len(term), len(candidate)) over the given terms and the
\* candidates of a lookup Set of which one contains the other, 0 when no
\* pair does
BestOver(lookup, terms) ==
  LET hits == {Min(Len(t), Len(c)) :
                 <<t, c>> \in {q \in terms \X Range(lookup) :
                                 Includes(q[1], q[2]) \/ Includes(q[2], q[1])}}
  IN IF hits = {} THEN 0 ELSE CHOOSE h \in hits : \A x \in hits : h >= x

\* the status that the given terms give a material
StatusThrough(terms) ==
  LET a == BestOver(AcceptedLookup, terms)
      n == BestOver(NotAcceptedLookup, terms)
  IN IF a = 0 /\ n = 0 THEN "unknown"
     ELSE IF n > a THEN "not_recyclable" ELSE "recyclable"

\* the lower-cased name of item k and its lower-cased material p[2]
NameOf(k) == ItemName(detectedItems[1][k])

MaterialOf(p) == ToLowerCase(detectedItems[1][p[1]].materials[p[2]])

\* C30 as stated: an item whose name is missing or empty is matched through
\* its material strings only, and a material that is the empty string is
\* classified "unknown".
EmptyMaterialIsUnknown ==
  Compared =>
    \A p \in DeclaredMaterials :
      /\ NameOf(p[1]) = <<>> => StatusOf(p) = StatusThrough({MaterialOf(p)})
      /\ MaterialOf(p) = <<>> => StatusOf(p) = "unknown"

\* C30: an empty search term never produces a match: the status of a
\* material is the one its non-empty search terms give, so an item whose
\* name is missing or empty is matched through its material strings only, a
\* material that is the empty string is matched through the item name only,
\* and it is "unknown" when the name is missing or empty as well.
EmptyTermsNeverMatch ==
  Compared =>
    \A p \in DeclaredMaterials :
      /\ (NameOf(p[1]) = <<>> \/ MaterialOf(p) = <<>>) =>
           StatusOf(p) = StatusThrough({NameOf(p[1]), MaterialOf(p)} \ {<<>>})
      /\ (NameOf(p[1]) = <<>> /\ MaterialOf(p) = <<>>) => StatusOf(p) = "unknown"

\* an empty material of a nameless item and an empty material of a named
\* item have been compared, and a named material of a nameless item
EmptyTermsCompared ==
  /\ Compared
  /\ \E p \in DeclaredMaterials :
       NameOf(p[1]) = <<>> /\ MaterialOf(p) = <<>> /\ StatusOf(p) = "unknown"
  /\ \E p \in DeclaredMaterials :
       NameOf(p[1]) # <<>> /\ MaterialOf(p) = <<>> /\ StatusOf(p) = "recyclable"

====
